---- MODULE Spec2Model ----
(***************************************************************************)
(* The prompt comparison tool: the five provider adapters (Claude, OpenAI,  *)
(* Gemini, Perplexity, SearchGPT) with their retry loops, backoff delays   *)
(* and result records (specification Spec), the orchestrator of main.py    *)
(* with its credential gate, comparison, aggregation and synthesis         *)
(* (specification SpecMain), the cost calculator (SpecCost), and          *)
(* compare_providers run over the adapters' loops (SpecCompare).           *)
(*                                                                         *)
(* Python values are modelled as follows.                                  *)
(*   str     a TLA+ string; Len, \o and SubSeq act on it character by      *)
(*           character, so `sub in s` and s.lower() are computed.          *)
(*   None    the record None; an optional string (a "content" field) is    *)
(*           the record PyStr(s) or PyNone.                                *)
(*   dict    a record with exactly the keys the code writes.               *)
(*   float   seconds are held in units of 1/Unit second, Unit = 2^FloatBits;*)
(*           a float has a FloatBits-bit significand and random.random()   *)
(*           returns a multiple of 1/Unit in [0,1), as CPython does with   *)
(*           FloatBits = 53. Sums are rounded to nearest, ties to even.    *)
(*   money   calculate_cost works in micro-dollars with exact arithmetic.  *)
(*           calculate_costFloat is the same computation in floats, each *)
(*           operation rounded to a FloatBits-bit significand.           *)
(***************************************************************************)
EXTENDS Integers, Sequences, FiniteSets, TLC

VARIABLES
    env,         \* names of the environment variables that are set
    pc,          \* "idle" | "attempt" (top of the loop body) | "returned" | "raised"
    adapter,     \* the adapter being invoked
    model,       \* argument model
    human_prompt, \* argument human_prompt (user_prompt)
    max_retries, \* argument max_retries
    search_enabled, \* argument search_enabled (SearchGPT)
    search_results, \* SearchGPT: what the web search returned
    user_message,   \* content of the user message sent to the vendor
    attempt,     \* loop variable of `for attempt in range(...)`
    calls,       \* vendor requests made by this invocation
    sleeps,      \* time.sleep calls made by this invocation
    wait_time,   \* argument of the latest time.sleep, in 1/Unit seconds
    error_str,   \* str(e) of the latest vendor exception ("" when none)
    trace,       \* outcome tag of every vendor request, and "sleep" for every sleep
    result,      \* value returned to the caller (None until then)
    args,        \* main: the parsed command line
    mpc,         \* main: position in main ("library" when main is not running)
    provider_idx, \* compare_providers: index of the provider in `providers`
    call_num,    \* loop variable of `for call_num in range(num_calls)`
    provider_responses, \* results of the calls made to the current provider
    total_usage, \* usage accumulated over the calls to the current provider
    responses,   \* compare_providers: provider key -> stored entry
    synthesis_response, \* main: result of synthesize_responses (None until then)
    total_cost,  \* total_cost of main / print_cost_summary, in micro-dollars
    invocations  \* every adapter invocation made so far, in order

adapterVars == <<env, pc, adapter, model, human_prompt, max_retries,
                 search_enabled, search_results, user_message, attempt, calls,
                 sleeps, wait_time, error_str, trace, result>>

mainVars == <<args, mpc, provider_idx, call_num, provider_responses,
              total_usage, responses, synthesis_response, total_cost,
              invocations>>

vars == <<env, pc, adapter, model, human_prompt, max_retries, search_enabled,
          search_results, user_message, attempt, calls, sleeps, wait_time,
          error_str, trace, result, args, mpc, provider_idx, call_num,
          provider_responses, total_usage, responses, synthesis_response,
          total_cost, invocations>>

(***************************************************************************)
(* Bounds of the model.                                                    *)
(***************************************************************************)
MaxRetries == 3
MaxTok == 1
FloatBits == 2

RECURSIVE Pow2(_)
Pow2(n) == IF n <= 0 THEN 1 ELSE 2 * Pow2(n - 1)

Unit == Pow2(FloatBits)

(***************************************************************************)
(* Python strings.                                                         *)
(***************************************************************************)
None == [py |-> "None"]
PyNone == [isNone |-> TRUE, str |-> ""]
PyStr(s) == [isNone |-> FALSE, str |-> s]

\* `sub in s`
Contains(s, sub) ==
    \E i \in 1..(Len(s) - Len(sub) + 1) : SubSeq(s, i, i + Len(sub) - 1) = sub

LowerChar(c) ==
    CASE c = "A" -> "a" [] c = "B" -> "b" [] c = "C" -> "c" [] c = "D" -> "d"
      [] c = "E" -> "e" [] c = "F" -> "f" [] c = "G" -> "g" [] c = "H" -> "h"
      [] c = "I" -> "i" [] c = "J" -> "j" [] c = "K" -> "k" [] c = "L" -> "l"
      [] c = "M" -> "m" [] c = "N" -> "n" [] c = "O" -> "o" [] c = "P" -> "p"
      [] c = "Q" -> "q" [] c = "R" -> "r" [] c = "S" -> "s" [] c = "T" -> "t"
      [] c = "U" -> "u" [] c = "V" -> "v" [] c = "W" -> "w" [] c = "X" -> "x"
      [] c = "Y" -> "y" [] c = "Z" -> "z" [] OTHER -> c

\* s.lower()
RECURSIVE Lower(_)
Lower(s) ==
    IF Len(s) = 0 THEN ""
    ELSE LowerChar(SubSeq(s, 1, 1)) \o Lower(SubSeq(s, 2, Len(s)))

(***************************************************************************)
(* Python floats: round to nearest, ties to even, FloatBits-bit significand.*)
(***************************************************************************)
RECURSIVE HighBit(_)
HighBit(n) == IF n < 2 THEN 1 ELSE 2 * HighBit(n \div 2)

\* s is an exact value in 1/Unit; the result is the float nearest to it
FloatRound(s) ==
    IF s < Unit THEN s
    ELSE LET q   == HighBit(s) \div Pow2(FloatBits - 1)
             idx == s \div q
             lo  == idx * q
             rem == s - lo
         IN  IF 2 * rem < q THEN lo
             ELSE IF 2 * rem > q THEN lo + q
             ELSE IF idx % 2 = 0 THEN lo ELSE lo + q

\* the same with the discarded part of a quotient: s is the integer part of
\* an exact value, sticky tells that a non-zero fraction follows it
FloatRoundSticky(s, sticky) ==
    LET q   == HighBit(s) \div Pow2(FloatBits - 1)
        idx == s \div q
        lo  == idx * q
        rem == s - lo
    IN  IF 2 * rem < q THEN lo
        ELSE IF 2 * rem > q \/ sticky THEN lo + q
        ELSE IF idx % 2 = 0 THEN lo ELSE lo + q

\* A float of any magnitude is 0 or m * 2^e with Unit/2 <= m < Unit. An int
\* operand of a float operation enters it exactly, as in CPython, where
\* every int of the model is below 2^53.
FloatZero == [m |-> 0, e |-> 0]

\* n * 2^e, n having at most FloatBits significant bits, in normal form
RECURSIVE Normalise(_, _)
Normalise(n, e) ==
    IF n = 0 THEN FloatZero
    ELSE IF n >= Unit THEN Normalise(n \div 2, e + 1)
    ELSE IF 2 * n < Unit THEN Normalise(2 * n, e - 1)
    ELSE [m |-> n, e |-> e]

\* the float nearest to the exact value n * 2^e
FloatOf(n, e) == Normalise(FloatRound(n), e)

\* int * float
FloatTimesInt(t, x) == FloatOf(t * x.m, x.e)

\* the float nearest to n * 2^e / d: the quotient is taken with 14 more
\* bits than n has, which leaves more than FloatBits + 1 bits to round
FloatDivide(n, e, d) ==
    IF n = 0 THEN FloatZero
    ELSE LET scaled == n * Pow2(14)
         IN  Normalise(FloatRoundSticky(scaled \div d, scaled % d # 0), e - 14)

\* float + float; an addend below half a unit in the last place of the
\* other leaves it unchanged
FloatAdd(x, y) ==
    IF x.m = 0 THEN y
    ELSE IF y.m = 0 THEN x
    ELSE LET hi == IF x.e >= y.e THEN x ELSE y
             lo == IF x.e >= y.e THEN y ELSE x
             d  == hi.e - lo.e
         IN  IF d > FloatBits THEN hi
             ELSE FloatOf(hi.m * Pow2(d) + lo.m, lo.e)

\* values random.random() can return, in 1/Unit
RandomValues == 0..(Unit - 1)

ZeroUsage == [input_tokens |-> 0, output_tokens |-> 0, total_tokens |-> 0]

(***************************************************************************)
(* main.py: tier and pricing tables, cost calculator.                      *)
(* Prices are per 1K tokens, in thousandths of a dollar (0.075 is 75), so a *)
(* cost tokens * price / 1000 dollars is tokens * price micro-dollars.     *)
(***************************************************************************)
PRICING ==
    [m \in {"claude-3-5-haiku-20241022", "claude-3-5-sonnet-20241022",
            "gpt-4o-mini", "gpt-4", "gemini-1.5-flash", "gemini-1.5-pro"} |->
        CASE m = "claude-3-5-haiku-20241022"  -> <<250, 1250>>
          [] m = "claude-3-5-sonnet-20241022" -> <<3000, 15000>>
          [] m = "gpt-4o-mini"                -> <<150, 600>>
          [] m = "gpt-4"                      -> <<30000, 60000>>
          [] m = "gemini-1.5-flash"           -> <<75, 300>>
          [] m = "gemini-1.5-pro"             -> <<1250, 5000>>]

\* mutant: a model missing from the table is charged at a fallback price, as
\* the Perplexity calculator does
calculate_costFallback(usage, m) ==
    LET price == IF m \in DOMAIN PRICING THEN PRICING[m] ELSE PRICING["gpt-4o-mini"]
    IN  usage.input_tokens * price[1] + usage.output_tokens * price[2]

\* mutant: a call that used any token is charged at least one cent
calculate_costMinimumCharge(usage, m) ==
    IF m \notin DOMAIN PRICING THEN 0
    ELSE LET cost == usage.input_tokens * PRICING[m][1]
                     + usage.output_tokens * PRICING[m][2]
         IN  IF usage.total_tokens > 0 /\ cost < 10000 THEN 10000 ELSE cost

calculate_cost(usage, m) ==
    IF m \notin DOMAIN PRICING THEN 0
    ELSE LET input_price   == PRICING[m][1]
             output_price  == PRICING[m][2]
             input_tokens  == usage.input_tokens
             output_tokens == usage.output_tokens
         IN  input_tokens * input_price + output_tokens * output_price

\* the float a price literal of PRICING denotes: 0.15 is the float nearest
\* to 150/1000
PriceFloat(thousandths) == FloatDivide(thousandths, 0, 1000)

\* calculate_cost as Python computes it, every operation rounded:
\* (input_tokens * input_price / 1000) + (output_tokens * output_price / 1000)
calculate_costFloat(usage, m) ==
    IF m \notin DOMAIN PRICING THEN FloatZero
    ELSE LET input_price   == PriceFloat(PRICING[m][1])
             output_price  == PriceFloat(PRICING[m][2])
             input_tokens  == usage.input_tokens
             output_tokens == usage.output_tokens
             input_part    == FloatTimesInt(input_tokens, input_price)
             output_part   == FloatTimesInt(output_tokens, output_price)
         IN  FloatAdd(FloatDivide(input_part.m, input_part.e, 1000),
                      FloatDivide(output_part.m, output_part.e, 1000))

(***************************************************************************)
(* The callers' inputs.                                                    *)
(***************************************************************************)
Adapters == {"claude", "openai", "gemini", "perplexity", "searchgpt"}
MainAdapters == {"claude", "openai", "gemini"}
HttpAdapters == {"perplexity", "searchgpt"}

\* a model of the pricing table and one that is in no table
RequestModels == {"gpt-4", "unknown-model-x"}
Models == DOMAIN PRICING \cup {"unknown-model-x"}

\* the prompts: one system prompt, a short and a longer question
SystemPrompt == "Be brief."
HumanPrompts == {"Hi", "What is the capital of France?"}

EnvKeys == {"PERPLEXITY_API_KEY", "OPENAI_API_KEY", "SERPER_API_KEY"}

\* the environments a run starts in: every key set, or one of them missing
Envs == {EnvKeys} \cup {EnvKeys \ {k} : k \in EnvKeys}

(***************************************************************************)
(* What a vendor can answer.                                               *)
(***************************************************************************)
ResponseTexts == {"Paris.", "The capital of France is Paris."}
TokenCounts == 0..MaxTok

\* str(e) of the exceptions the SDKs raise
ErrorTexts ==
    {"Error code: 529 - Overloaded",
     "Error code: 429 - rate_limit_error",
     "Error code: 500 - Internal server error",
     "Request timeout",
     "RESOURCE_EXHAUSTED: quota exceeded",
     "Error code: 401 - invalid x-api-key"}

\* an optional value is <<>> (None) or <<v>>
ClaudeResponses ==
    [text : ResponseTexts,
     usage : {<<>>} \cup {<<u>> : u \in [input_tokens : TokenCounts,
                                          output_tokens : TokenCounts]}]

\* the vendor reports its own total, which may count tokens of other kinds
OpenAIUsages ==
    {[prompt_tokens |-> i, completion_tokens |-> o, total_tokens |-> i + o + x] :
        i \in TokenCounts, o \in TokenCounts, x \in {0, 1}}

OpenAIResponses ==
    [text : ResponseTexts, usage : {<<>>} \cup {<<u>> : u \in OpenAIUsages}]

(***************************************************************************)
(* Control flow shared by the retry loops.                                 *)
(***************************************************************************)
\* `return r` after a vendor request whose outcome is tagged tag
Return(r, tag) ==
    /\ pc' = "returned"
    /\ result' = r
    /\ calls' = calls + 1
    /\ trace' = Append(trace, tag)
    /\ UNCHANGED <<attempt, sleeps, wait_time>>

\* mutant: the result is kept but the loop goes on to its next pass
ReturnSuccessKeepLooping(r) ==
    /\ result' = r
    /\ calls' = calls + 1
    /\ trace' = Append(trace, "ok")
    /\ pc' = IF attempt < max_retries THEN "attempt" ELSE "returned"
    /\ attempt' = IF attempt < max_retries THEN attempt + 1 ELSE attempt
    /\ UNCHANGED <<sleeps, wait_time>>

\* the `return {...}` that ends the try block after a vendor response
ReturnSuccess(r) == Return(r, "ok")

\* `continue` in `for attempt in range(n)`: the next index, or the end of the
\* loop and of the function, which then returns None
Continue(n) ==
    IF attempt + 1 < n
    THEN pc' = "attempt" /\ attempt' = attempt + 1 /\ result' = result
    ELSE pc' = "returned" /\ attempt' = attempt /\ result' = None

\* `time.sleep(w); continue` after a vendor request whose outcome is tagged tag
SleepAndContinue(w, n, tag) ==
    /\ sleeps' = sleeps + 1
    /\ wait_time' = w
    /\ calls' = calls + 1
    /\ trace' = trace \o <<tag, "sleep">>
    /\ Continue(n)

\* mutant: range(max_retries), one attempt short
MainRangeExclusive(mr) == mr

\* range(max_retries + 1) of the Claude, OpenAI and Gemini adapters
MainRange(mr) == mr + 1

\* mutant: the final attempt sleeps as well
RetriesLeftInclusive(a, mr) == a <= mr

\* `attempt < max_retries`
RetriesLeft(a, mr) == a < mr

\* mutant: 2 * attempt for 2 ** attempt
BackoffProduct(a, r) == FloatRound(2 * a * Unit + r)

\* (2 ** attempt) + random.random(), r a value of random.random()
Backoff(a, r) == FloatRound(Pow2(a) * Unit + r)

(***************************************************************************)
(* claude_client.py                                                        *)
(***************************************************************************)
\* "529" in error_str or "overloaded" in error_str.lower()
ClaudeRetryable(e) == Contains(e, "529") \/ Contains(Lower(e), "overloaded")

\* the classification of every error text, computed once
ClaudeClass == [e \in ErrorTexts |-> ClaudeRetryable(e)]

ClaudeSuccess(resp, m) ==
    LET input_tokens  == IF resp.usage # <<>> THEN resp.usage[1].input_tokens ELSE 0
        output_tokens == IF resp.usage # <<>> THEN resp.usage[1].output_tokens ELSE 0
    IN  [content  |-> PyStr(resp.text),
         usage    |-> [input_tokens  |-> input_tokens,
                       output_tokens |-> output_tokens,
                       total_tokens  |-> input_tokens + output_tokens],
         model    |-> m,
         provider |-> "claude"]

\* mutant: every error result carries the exhaustion text
ClaudeErrorMarked(e, m) ==
    [content  |-> PyStr("Error calling Claude: Claude overloaded after "
                        \o ToString(max_retries + 1) \o " attempts: " \o e),
     usage    |-> ZeroUsage,
     model    |-> m,
     provider |-> "claude"]

ClaudeError(e, m) ==
    [content  |-> PyStr("Error calling Claude: " \o e),
     usage    |-> ZeroUsage,
     model    |-> m,
     provider |-> "claude"]

\* one iteration of the loop of call_claude_with_prompts
call_claude_with_prompts ==
    /\ pc = "attempt"
    /\ UNCHANGED mainVars
    /\ adapter = "claude"
    /\ UNCHANGED <<env, adapter, model, human_prompt, max_retries, search_enabled,
                   search_results, user_message>>
    /\ \/ \E resp \in ClaudeResponses :
            /\ ReturnSuccess(ClaudeSuccess(resp, model))
            /\ error_str' = error_str
       \/ \E e \in ErrorTexts :
            /\ error_str' = e
            /\ IF ClaudeClass[e]
               THEN IF RetriesLeft(attempt, max_retries)
                    THEN \E r \in RandomValues :
                            SleepAndContinue(Backoff(attempt, r),
                                             MainRange(max_retries), "retryable")
                    ELSE Return(ClaudeError("Claude overloaded after "
                                            \o ToString(max_retries + 1)
                                            \o " attempts: " \o e, model),
                                "retryable")
               ELSE Return(ClaudeError(e, model), "fatal")

(***************************************************************************)
(* openai_client.py                                                        *)
(***************************************************************************)
\* mutant: the Claude adapter's test, copied: the overload signal only
OpenAIRetryableOverloadOnly(e) ==
    Contains(e, "529") \/ Contains(Lower(e), "overloaded")

\* mutant: an indicator list so broad that every error text matches
OpenAIRetryableLoose(e) ==
    \E err \in {"rate_limit", "429", "500", "502", "503", "504", "timeout",
                "overloaded", "error"} : Contains(Lower(e), err)

\* any(err in error_str.lower() for err in retryable_errors)
OpenAIRetryable(e) ==
    \E err \in {"rate_limit", "429", "500", "502", "503", "504", "timeout",
                "overloaded"} : Contains(Lower(e), err)

OpenAIClass == [e \in ErrorTexts |-> OpenAIRetryable(e)]

OpenAISuccess(resp, m) ==
    LET input_tokens  == IF resp.usage # <<>> THEN resp.usage[1].prompt_tokens ELSE 0
        output_tokens == IF resp.usage # <<>> THEN resp.usage[1].completion_tokens ELSE 0
    IN  [content  |-> PyStr(resp.text),
         usage    |-> [input_tokens  |-> input_tokens,
                       output_tokens |-> output_tokens,
                       total_tokens  |-> input_tokens + output_tokens],
         model    |-> m,
         provider |-> "openai"]

\* mutant: the error result drops the message of the exception
OpenAIErrorNoMessage(e, m) ==
    [content  |-> PyStr("Error calling OpenAI: request failed"),
     usage    |-> ZeroUsage,
     model    |-> m,
     provider |-> "openai"]

OpenAIError(e, m) ==
    [content  |-> PyStr("Error calling OpenAI: " \o e),
     usage    |-> ZeroUsage,
     model    |-> m,
     provider |-> "openai"]

\* one iteration of the loop of call_openai_with_prompts
call_openai_with_prompts ==
    /\ pc = "attempt"
    /\ UNCHANGED mainVars
    /\ adapter = "openai"
    /\ UNCHANGED <<env, adapter, model, human_prompt, max_retries, search_enabled,
                   search_results, user_message>>
    /\ \/ \E resp \in OpenAIResponses :
            /\ ReturnSuccess(OpenAISuccess(resp, model))
            /\ error_str' = error_str
       \/ \E e \in ErrorTexts :
            LET is_retryable == OpenAIClass[e]
            IN  /\ error_str' = e
                /\ IF is_retryable /\ RetriesLeft(attempt, max_retries)
                   THEN \E r \in RandomValues :
                           SleepAndContinue(Backoff(attempt, r),
                                            MainRange(max_retries), "retryable")
                   ELSE IF is_retryable
                   THEN Return(OpenAIError("OpenAI error after "
                                           \o ToString(max_retries + 1)
                                           \o " attempts: " \o e, model),
                               "retryable")
                   ELSE Return(OpenAIError(e, model), "fatal")

(***************************************************************************)
(* gemini_client.py                                                        *)
(***************************************************************************)
GeminiResponses ==
    [text : ResponseTexts,
     usage_metadata : {<<>>} \cup
        {<<u>> : u \in [prompt_token_count : TokenCounts,
                        candidates_token_count : TokenCounts]}]

GeminiRetryable(e) ==
    \E err \in {"rate_limit", "quota", "429", "500", "502", "503", "504",
                "timeout", "overloaded", "resource_exhausted"} :
        Contains(Lower(e), err)

GeminiClass == [e \in ErrorTexts |-> GeminiRetryable(e)]

\* mutant: the estimate of the input tokens leaves out the system prompt
GeminiSuccessHumanOnly(resp, m, system_prompt, prompt) ==
    LET usage_metadata == resp.usage_metadata
        input_tokens  == IF usage_metadata # <<>>
                         THEN usage_metadata[1].prompt_token_count
                         ELSE Len(prompt) \div 4
        output_tokens == IF usage_metadata # <<>>
                         THEN usage_metadata[1].candidates_token_count
                         ELSE Len(resp.text) \div 4
    IN  [content  |-> PyStr(resp.text),
         usage    |-> [input_tokens  |-> input_tokens,
                       output_tokens |-> output_tokens,
                       total_tokens  |-> input_tokens + output_tokens],
         model    |-> m,
         provider |-> "gemini"]

GeminiSuccess(resp, m, system_prompt, prompt) ==
    LET usage_metadata == resp.usage_metadata
        input_tokens  == IF usage_metadata # <<>>
                         THEN usage_metadata[1].prompt_token_count
                         ELSE Len(system_prompt \o prompt) \div 4
        output_tokens == IF usage_metadata # <<>>
                         THEN usage_metadata[1].candidates_token_count
                         ELSE Len(resp.text) \div 4
    IN  [content  |-> PyStr(resp.text),
         usage    |-> [input_tokens  |-> input_tokens,
                       output_tokens |-> output_tokens,
                       total_tokens  |-> input_tokens + output_tokens],
         model    |-> m,
         provider |-> "gemini"]

\* mutant: the error result reports the length estimate of the success path
GeminiErrorEstimated(e, m) ==
    [content  |-> PyStr("Error calling Gemini: " \o e),
     usage    |-> [input_tokens  |-> Len(e) \div 4,
                   output_tokens |-> 0,
                   total_tokens  |-> Len(e) \div 4],
     model    |-> m,
     provider |-> "gemini"]

GeminiError(e, m) ==
    [content  |-> PyStr("Error calling Gemini: " \o e),
     usage    |-> ZeroUsage,
     model    |-> m,
     provider |-> "gemini"]

\* one iteration of the loop of call_gemini_with_prompts
call_gemini_with_prompts ==
    /\ pc = "attempt"
    /\ UNCHANGED mainVars
    /\ adapter = "gemini"
    /\ UNCHANGED <<env, adapter, model, human_prompt, max_retries, search_enabled,
                   search_results, user_message>>
    /\ \/ \E resp \in GeminiResponses :
            /\ ReturnSuccess(GeminiSuccess(resp, model, SystemPrompt, human_prompt))
            /\ error_str' = error_str
       \/ \E e \in ErrorTexts :
            LET is_retryable == GeminiClass[e]
            IN  /\ error_str' = e
                /\ IF is_retryable /\ RetriesLeft(attempt, max_retries)
                   THEN \E r \in RandomValues :
                           SleepAndContinue(Backoff(attempt, r),
                                            MainRange(max_retries), "retryable")
                   ELSE IF is_retryable
                   THEN Return(GeminiError("Gemini error after "
                                           \o ToString(max_retries + 1)
                                           \o " attempts: " \o e, model),
                               "retryable")
                   ELSE Return(GeminiError(e, model), "fatal")

(***************************************************************************)
(* perplexity_client.py                                                    *)
(***************************************************************************)
\* range(max_retries) of the Perplexity and SearchGPT adapters
HttpRange(mr) == mr

\* `attempt < max_retries - 1`
HttpRetriesLeft(a, mr) == a < mr - 1

\* d.get(k, default) of a dict held as a record
DictGet(d, k, default) == IF k \in DOMAIN d THEN d[k] ELSE default

IsDigit(c) == c \in {"0", "1", "2", "3", "4", "5", "6", "7", "8", "9"}

DigitValue(c) ==
    CASE c = "0" -> 0 [] c = "1" -> 1 [] c = "2" -> 2 [] c = "3" -> 3
      [] c = "4" -> 4 [] c = "5" -> 5 [] c = "6" -> 6 [] c = "7" -> 7
      [] c = "8" -> 8 [] c = "9" -> 9

\* int(s) of a header value: <<n>> for a string of decimal digits, <<>> where
\* int raises ValueError
RECURSIVE DigitsValue(_, _)
DigitsValue(s, acc) ==
    IF Len(s) = 0 THEN acc
    ELSE DigitsValue(SubSeq(s, 2, Len(s)), 10 * acc + DigitValue(SubSeq(s, 1, 1)))

ParseInt(s) ==
    IF Len(s) > 0 /\ \A i \in 1..Len(s) : IsDigit(SubSeq(s, i, i))
    THEN <<DigitsValue(s, 0)>>
    ELSE <<>>

\* Perplexity prices per 1M tokens, in cents; a cost is in 10^-8 dollars
PerplexityPricing ==
    [m \in {"llama-3.1-sonar-small-128k-online", "llama-3.1-sonar-large-128k-online",
            "llama-3.1-sonar-huge-128k-online", "llama-3.1-8b-instruct",
            "llama-3.1-70b-instruct", "mixtral-8x7b-instruct"} |->
        CASE m = "llama-3.1-sonar-small-128k-online" -> <<20, 20>>
          [] m = "llama-3.1-sonar-large-128k-online" -> <<100, 100>>
          [] m = "llama-3.1-sonar-huge-128k-online"  -> <<500, 500>>
          [] m = "llama-3.1-8b-instruct"             -> <<20, 20>>
          [] m = "llama-3.1-70b-instruct"            -> <<100, 100>>
          [] m = "mixtral-8x7b-instruct"             -> <<60, 60>>]

\* mutant: a model missing from the table costs nothing, as in main.py
calculate_perplexity_costZero(m, input_tokens, output_tokens) ==
    IF m \notin DOMAIN PerplexityPricing THEN 0
    ELSE input_tokens * PerplexityPricing[m][1]
         + output_tokens * PerplexityPricing[m][2]

calculate_perplexity_cost(m, input_tokens, output_tokens) ==
    LET price == IF m \notin DOMAIN PerplexityPricing
                 THEN <<20, 20>>
                 ELSE PerplexityPricing[m]
    IN  input_tokens * price[1] + output_tokens * price[2]

\* the `usage` object of a 200 response: absent, without a total, or with the
\* vendor's own total
PerplexityUsages ==
    {<<>>}
    \cup {<<[prompt_tokens |-> i, completion_tokens |-> o]>> :
             i \in TokenCounts, o \in TokenCounts}
    \cup {<<[prompt_tokens |-> i, completion_tokens |-> o, total_tokens |-> i + o + x]>> :
             i \in TokenCounts, o \in TokenCounts, x \in {0, 1}}

\* the Retry-After header of a response: absent, seconds, or an HTTP date
RetryAfterHeaders == {<<>>, <<"2">>, <<"Fri, 06 Nov 2026 13:00:00 GMT">>}

\* what requests.post does: a response, or an exception
PerplexityOutcomes ==
    [kind : {"response"}, status_code : {200}, retry_after : {<<>>},
     text : ResponseTexts, usage : PerplexityUsages]
    \cup [kind : {"response"}, status_code : {429}, retry_after : RetryAfterHeaders,
          text : {"Too Many Requests"}, usage : {<<>>}]
    \cup [kind : {"response"}, status_code : {401, 500, 503}, retry_after : {<<>>},
          text : {"rejected"}, usage : {<<>>}]
    \cup [kind : {"Timeout", "ConnectionError"}, status_code : {0}, retry_after : {<<>>},
          text : {"Connection aborted."}, usage : {<<>>}]

PerplexitySuccess(out, m) ==
    LET usage         == IF out.usage = <<>> THEN [none |-> 0] ELSE out.usage[1]
        input_tokens  == DictGet(usage, "prompt_tokens", 0)
        output_tokens == DictGet(usage, "completion_tokens", 0)
        total_tokens  == DictGet(usage, "total_tokens", input_tokens + output_tokens)
    IN  [content  |-> PyStr(out.text),
         usage    |-> [input_tokens  |-> input_tokens,
                       output_tokens |-> output_tokens,
                       total_tokens  |-> total_tokens],
         cost     |-> calculate_perplexity_cost(m, input_tokens, output_tokens),
         model    |-> m,
         provider |-> "perplexity"]

PerplexityError(msg, m) ==
    [error   |-> msg,
     content |-> PyNone,
     usage   |-> ZeroUsage,
     cost    |-> 0,
     model   |-> m]

\* the tag an outcome of requests.post leaves in the trace
PerplexityTag(out) ==
    IF out.kind # "response" THEN out.kind
    ELSE IF out.status_code = 200 THEN "ok"
    ELSE IF out.status_code = 429 THEN "http429"
    ELSE IF out.status_code >= 500 THEN "http5xx"
    ELSE "http4xx"

\* one iteration of the loop of call_perplexity_with_prompts
call_perplexity_with_prompts ==
    /\ pc = "attempt"
    /\ UNCHANGED mainVars
    /\ adapter = "perplexity"
    /\ UNCHANGED <<env, adapter, model, human_prompt, max_retries, search_enabled,
                   search_results, user_message>>
    /\ \E out \in PerplexityOutcomes :
         LET tag == PerplexityTag(out)
             n   == ToString(max_retries)
         IN
         IF out.kind = "response"
         THEN /\ IF out.status_code = 429 /\ out.retry_after # <<>>
                    /\ ParseInt(out.retry_after[1]) = <<>>
                 THEN error_str' = "invalid literal for int() with base 10: '"
                                   \o out.retry_after[1] \o "'"
                 ELSE error_str' = error_str
              /\ IF out.status_code = 200
                 THEN ReturnSuccess(PerplexitySuccess(out, model))
                 ELSE IF out.status_code = 429
                 THEN LET header == IF out.retry_after = <<>>
                                    THEN <<60>>
                                    ELSE ParseInt(out.retry_after[1])
                      IN  IF header = <<>>
                          THEN Return(PerplexityError("Unexpected error: " \o error_str', model),
                                      tag)
                          ELSE IF HttpRetriesLeft(attempt, max_retries)
                          THEN SleepAndContinue(header[1] * Unit,
                                                HttpRange(max_retries), tag)
                          ELSE Return(PerplexityError("Rate limit exceeded after " \o n
                                                      \o " attempts", model), tag)
                 ELSE IF out.status_code >= 500
                 THEN IF HttpRetriesLeft(attempt, max_retries)
                      THEN SleepAndContinue(Pow2(attempt) * 1 * Unit,
                                            HttpRange(max_retries), tag)
                      ELSE Return(PerplexityError("Server error "
                                                  \o ToString(out.status_code)
                                                  \o " after " \o n \o " attempts",
                                                  model), tag)
                 ELSE Return(PerplexityError("API error " \o ToString(out.status_code)
                                             \o ": " \o out.text, model), tag)
         ELSE /\ error_str' = out.text
              /\ IF out.kind = "Timeout"
                 THEN IF HttpRetriesLeft(attempt, max_retries)
                      THEN SleepAndContinue(Pow2(attempt) * Unit,
                                            HttpRange(max_retries), tag)
                      ELSE Return(PerplexityError("Request timeout after " \o n
                                                  \o " attempts", model), tag)
                 ELSE Return(PerplexityError("Unexpected error: " \o out.text, model),
                             tag)

(***************************************************************************)
(* searchgpt_client.py                                                     *)
(***************************************************************************)
\* OpenAI prices per 1M tokens, in cents; a cost is in 10^-8 dollars
SearchGPTPricing ==
    [m \in {"gpt-4o", "gpt-4o-mini", "gpt-4-turbo", "gpt-4", "gpt-3.5-turbo"} |->
        CASE m = "gpt-4o"        -> <<250, 1000>>
          [] m = "gpt-4o-mini"   -> <<15, 60>>
          [] m = "gpt-4-turbo"   -> <<1000, 3000>>
          [] m = "gpt-4"         -> <<3000, 6000>>
          [] m = "gpt-3.5-turbo" -> <<50, 150>>]

calculate_searchgpt_cost(m, input_tokens, output_tokens) ==
    LET price == IF m \notin DOMAIN SearchGPTPricing
                 THEN <<15, 60>>
                 ELSE SearchGPTPricing[m]
    IN  input_tokens * price[1] + output_tokens * price[2]

check_searchgpt_api_keys(e) ==
    IF "OPENAI_API_KEY" \notin e THEN FALSE
    ELSE IF "SERPER_API_KEY" \notin e THEN FALSE
    ELSE TRUE

\* one entry of the `organic` list of a Serper response
Organic(i) ==
    [title   |-> "Title " \o ToString(i),
     link    |-> "https://example.org/" \o ToString(i),
     snippet |-> "Snippet " \o ToString(i)]

\* what the search backend answers: a 200 with no, one or six results (one
\* of them without a snippet), another status, or an exception
SerperOutcomes ==
    [kind : {"response"}, status_code : {200},
     organic : {<<>>,
                <<[title |-> "Title 0", link |-> "https://example.org/0"]>>,
                <<Organic(1), Organic(2), Organic(3), Organic(4), Organic(5),
                  Organic(6)>>}]
    \cup [kind : {"response"}, status_code : {500}, organic : {<<>>}]
    \cup [kind : {"exception"}, status_code : {0}, organic : {<<>>}]

\* search_web(query, num_results) on the outcome of its request
search_web(out, num_results) ==
    IF out.kind = "response"
    THEN IF out.status_code = 200
         THEN LET organic_results == out.organic
                  n == IF Len(organic_results) < num_results
                       THEN Len(organic_results) ELSE num_results
              IN  [i \in 1..n |->
                      [title   |-> DictGet(organic_results[i], "title", ""),
                       link    |-> DictGet(organic_results[i], "link", ""),
                       snippet |-> DictGet(organic_results[i], "snippet", "")]]
         ELSE <<>>
    ELSE <<>>

\* the search_context built from results i..Len(results)
RECURSIVE SearchContext(_, _)
SearchContext(results, i) ==
    IF i > Len(results) THEN ""
    ELSE ToString(i) \o ". " \o results[i].title \o "\n"
         \o "   " \o results[i].snippet \o "\n"
         \o "   Source: " \o results[i].link \o "\n\n"
         \o SearchContext(results, i + 1)

EnhancedPromptAlways(enabled, results, user_prompt) ==
    IF enabled
    THEN "Recent web search results:\n\n" \o SearchContext(results, 1)
         \o "\nUser Question: " \o user_prompt
    ELSE user_prompt

\* enhanced_prompt of call_searchgpt_with_prompts
EnhancedPrompt(enabled, results, user_prompt) ==
    IF enabled /\ results # <<>>
    THEN "Recent web search results:\n\n" \o SearchContext(results, 1)
         \o "\nUser Question: " \o user_prompt
         \o "\n\nPlease provide a comprehensive answer using the above search results and your knowledge. Include relevant sources when appropriate."
    ELSE user_prompt

\* the exceptions of the OpenAI SDK by class: RateLimitError and the other
\* status errors are APIErrors that carry status_code; APIConnectionError is an
\* APIError that has no status_code attribute; TypeError is no APIError
SearchGPTExceptions ==
    {[cls |-> "RateLimitError", status_code |-> <<429>>,
      text |-> "Error code: 429 - rate_limit_error"],
     [cls |-> "AuthenticationError", status_code |-> <<401>>,
      text |-> "Error code: 401 - invalid api key"],
     [cls |-> "InternalServerError", status_code |-> <<500>>,
      text |-> "Error code: 500 - Internal server error"],
     [cls |-> "APIConnectionError", status_code |-> <<>>,
      text |-> "Connection error."],
     [cls |-> "TypeError", status_code |-> <<>>,
      text |-> "unexpected keyword argument"]}

IsRateLimitError(e) == e.cls = "RateLimitError"

IsAPIError(e) ==
    e.cls \in {"RateLimitError", "AuthenticationError", "InternalServerError",
               "APIConnectionError"}

SearchGPTSuccess(resp, m, enabled, results) ==
    LET usage         == resp.usage[1]
        input_tokens  == usage.prompt_tokens
        output_tokens == usage.completion_tokens
        total_tokens  == usage.total_tokens
    IN  [content         |-> PyStr(resp.text),
         usage           |-> [input_tokens  |-> input_tokens,
                              output_tokens |-> output_tokens,
                              total_tokens  |-> total_tokens],
         cost            |-> calculate_searchgpt_cost(m, input_tokens, output_tokens),
         model           |-> m,
         provider        |-> "searchgpt",
         search_results  |-> results,
         search_enhanced |-> (enabled /\ Len(results) > 0)]

\* mutant: a failure result reports no search results
SearchGPTErrorNoResults(msg, m, results) ==
    [error          |-> msg,
     content        |-> PyNone,
     usage          |-> ZeroUsage,
     cost           |-> 0,
     model          |-> m,
     search_results |-> <<>>]

SearchGPTError(msg, m, results) ==
    [error          |-> msg,
     content        |-> PyNone,
     usage          |-> ZeroUsage,
     cost           |-> 0,
     model          |-> m,
     search_results |-> results]

\* an exception no handler catches leaves the function
Raise(tag) ==
    /\ pc' = "raised"
    /\ result' = None
    /\ calls' = calls + 1
    /\ trace' = Append(trace, tag)
    /\ UNCHANGED <<attempt, sleeps, wait_time>>

\* one iteration of the loop of call_searchgpt_with_prompts
call_searchgpt_with_prompts ==
    /\ pc = "attempt"
    /\ UNCHANGED mainVars
    /\ adapter = "searchgpt"
    /\ UNCHANGED <<env, adapter, model, human_prompt, max_retries, search_enabled,
                   search_results, user_message>>
    /\ LET n == ToString(max_retries)
       IN
       \/ \E resp \in OpenAIResponses :
            IF resp.usage # <<>>
            THEN /\ error_str' = error_str
                 /\ ReturnSuccess(SearchGPTSuccess(resp, model, search_enabled,
                                                   search_results))
            ELSE \* usage.prompt_tokens of None: AttributeError, caught at the end
                 /\ error_str' = "'NoneType' object has no attribute 'prompt_tokens'"
                 /\ Return(SearchGPTError("Unexpected error: " \o error_str', model,
                                          search_results), "malformed")
       \/ \E e \in SearchGPTExceptions :
            /\ error_str' = e.text
            /\ IF IsRateLimitError(e)
               THEN IF HttpRetriesLeft(attempt, max_retries)
                    THEN SleepAndContinue(60 * Unit, HttpRange(max_retries), e.cls)
                    ELSE Return(SearchGPTError("Rate limit exceeded after " \o n
                                               \o " attempts", model, search_results),
                                e.cls)
               ELSE IF IsAPIError(e)
               THEN IF e.status_code = <<>>
                    THEN \* e.status_code in the handler: AttributeError
                         Raise(e.cls)
                    ELSE IF HttpRetriesLeft(attempt, max_retries)
                    THEN SleepAndContinue(Pow2(attempt) * 1 * Unit,
                                          HttpRange(max_retries), e.cls)
                    ELSE Return(SearchGPTError("OpenAI API error "
                                               \o ToString(e.status_code[1])
                                               \o " after " \o n \o " attempts: "
                                               \o e.text, model, search_results),
                                e.cls)
               ELSE Return(SearchGPTError("Unexpected error: " \o e.text, model,
                                          search_results), e.cls)

(***************************************************************************)
(* Entry of an adapter: the arguments are bound and the code before the    *)
(* loop runs. A loop over an empty range ends at once and the function     *)
(* returns None.                                                           *)
(***************************************************************************)
EnterLoop(n) ==
    /\ attempt' = 0
    /\ calls' = 0
    /\ sleeps' = 0
    /\ wait_time' = 0
    /\ error_str' = ""
    /\ trace' = <<>>
    /\ result' = None
    /\ pc' = IF n > 0 THEN "attempt" ELSE "returned"

\* a return before the loop
ReturnEarly(r) ==
    /\ attempt' = 0
    /\ calls' = 0
    /\ sleeps' = 0
    /\ wait_time' = 0
    /\ error_str' = ""
    /\ trace' = <<>>
    /\ result' = r
    /\ pc' = "returned"

Invoke(a) ==
    /\ pc = "idle"
    /\ mpc = "library"
    /\ UNCHANGED mainVars
    /\ adapter' = a
    /\ UNCHANGED env
    /\ \E m \in RequestModels, h \in HumanPrompts, mr \in 0..MaxRetries :
          /\ model' = m
          /\ human_prompt' = h
          /\ max_retries' = mr
          /\ IF a \in MainAdapters
             THEN /\ search_enabled' = FALSE
                  /\ search_results' = <<>>
                  /\ user_message' = h
                  /\ EnterLoop(MainRange(mr))
             ELSE IF a = "perplexity"
             THEN /\ search_enabled' = FALSE
                  /\ search_results' = <<>>
                  /\ user_message' = h
                  /\ IF "PERPLEXITY_API_KEY" \notin env
                     THEN ReturnEarly(PerplexityError("Perplexity API key not configured", m))
                     ELSE EnterLoop(HttpRange(mr))
             ELSE \E enabled \in BOOLEAN :
                  /\ search_enabled' = enabled
                  /\ IF ~check_searchgpt_api_keys(env)
                     THEN /\ search_results' = <<>>
                          /\ user_message' = h
                          /\ ReturnEarly(SearchGPTError("SearchGPT API keys not configured",
                                                        m, <<>>))
                     ELSE IF enabled
                     THEN \E out \in SerperOutcomes :
                             /\ search_results' = search_web(out, 5)
                             /\ user_message' = EnhancedPrompt(enabled, search_results', h)
                             /\ EnterLoop(HttpRange(mr))
                     ELSE /\ search_results' = <<>>
                          /\ user_message' = h
                          /\ EnterLoop(HttpRange(mr))

\* an empty dict
EmptyDict == [k \in {} |-> None]

\* the adapters are called directly, main is not running
MainNotRunning ==
    /\ args = None
    /\ mpc = "library"
    /\ provider_idx = 0
    /\ call_num = 0
    /\ provider_responses = <<>>
    /\ total_usage = ZeroUsage
    /\ responses = EmptyDict
    /\ synthesis_response = None
    /\ total_cost = 0
    /\ invocations = <<>>

Init ==
    /\ MainNotRunning
    /\ env \in Envs
    /\ pc = "idle"
    /\ adapter = "claude"
    /\ model = "gpt-4"
    /\ human_prompt = "Hi"
    /\ max_retries = 0
    /\ search_enabled = FALSE
    /\ search_results = <<>>
    /\ user_message = ""
    /\ attempt = 0
    /\ calls = 0
    /\ sleeps = 0
    /\ wait_time = 0
    /\ error_str = ""
    /\ trace = <<>>
    /\ result = None

Next ==
    \/ \E a \in Adapters : Invoke(a)
    \/ call_claude_with_prompts
    \/ call_openai_with_prompts
    \/ call_gemini_with_prompts
    \/ call_perplexity_with_prompts
    \/ call_searchgpt_with_prompts

Spec == Init /\ [][Next]_vars

(***************************************************************************)
(* main.py: the orchestrator. An adapter invocation is one step here: the  *)
(* adapter is entered with main's arguments and hands back one of the      *)
(* results its own loop, modelled above, can return (max_retries keeps its *)
(* default, 3, since main never passes it).                                *)
(***************************************************************************)
TIERS ==
    [t \in {"economy", "mid", "luxury"} |->
        CASE t = "economy" ->
               [description |-> "Economy tier - cheapest models for cost-effective processing",
                claude      |-> "claude-3-5-haiku-20241022",
                openai      |-> "gpt-4o-mini",
                gemini      |-> "gemini-1.5-flash",
                synthesis   |-> "claude-3-5-haiku-20241022"]
          [] t = "mid" ->
               [description |-> "Mid tier - balanced cost and quality with premium synthesis",
                claude      |-> "claude-3-5-haiku-20241022",
                openai      |-> "gpt-4o-mini",
                gemini      |-> "gemini-1.5-flash",
                synthesis   |-> "claude-3-5-sonnet-20241022"]
          [] t = "luxury" ->
               [description |-> "Luxury tier - premium models for maximum quality",
                claude      |-> "claude-3-5-sonnet-20241022",
                openai      |-> "gpt-4",
                gemini      |-> "gemini-1.5-pro",
                synthesis   |-> "claude-3-5-sonnet-20241022"]]

\* mutant: the Gemini entry is missing from the list
providersTwo(tier_config) ==
    <<[provider_key |-> "claude", model |-> tier_config.claude],
      [provider_key |-> "openai", model |-> tier_config.openai]>>

\* mutant: OpenAI is listed before Claude
providersReordered(tier_config) ==
    <<[provider_key |-> "openai", model |-> tier_config.openai],
      [provider_key |-> "claude", model |-> tier_config.claude],
      [provider_key |-> "gemini", model |-> tier_config.gemini]>>

\* the list `providers` of compare_providers: (provider_key, model), in order
providers(tier_config) ==
    <<[provider_key |-> "claude", model |-> tier_config.claude],
      [provider_key |-> "openai", model |-> tier_config.openai],
      [provider_key |-> "gemini", model |-> tier_config.gemini]>>

\* check_api_key, check_openai_api_key, check_gemini_api_key: `not api_key`
\* holds for an unset and for an empty variable; e holds the names that are
\* set to a non-empty value
check_api_key(e) == "ANTHROPIC_API_KEY" \in e
check_openai_api_key(e) == "OPENAI_API_KEY" \in e
\* mutant: the Gemini key is not looked at
check_gemini_api_keyUnchecked(e) == TRUE

check_gemini_api_key(e) == "GEMINI_API_KEY" \in e

MainEnvKeys == {"ANTHROPIC_API_KEY", "OPENAI_API_KEY", "GEMINI_API_KEY"}
MainEnvs == SUBSET MainEnvKeys

\* --num-calls
NumCallsChoices == {1, 2, 3}

\* --provider and --compare: neither, a single provider, or both at once
ModeFlags ==
    {<<"", FALSE>>, <<"claude", FALSE>>, <<"openai", FALSE>>, <<"gemini", FALSE>>,
     <<"openai", TRUE>>}

\* the command lines: --list-tiers, a missing prompt, and the runs proper.
\* Three calls per provider are run in the luxury tier without --synthesize
\* and without --compare; one and two calls in every tier and mode.
CommandLines ==
    {a \in [list_tiers : BOOLEAN, system_prompt : {"", SystemPrompt},
            human_prompt : {"What is the capital of France?"},
            provider : {"", "claude", "openai", "gemini"}, compare : BOOLEAN,
            synthesize : BOOLEAN, tier : DOMAIN TIERS,
            num_calls : NumCallsChoices] :
        /\ <<a.provider, a.compare>> \in ModeFlags
        /\ a.num_calls = 3 => (a.tier = "luxury" /\ ~a.synthesize /\ ~a.compare)}

\* what the vendors answer during a run of main: a plain sentence, and one
\* set between two Markdown rules; each comes with its token counts
MainAnswers ==
    {[text |-> "Paris.", input_tokens |-> 1000, output_tokens |-> 1000],
     [text |-> "---\n\nParis.\n\n---", input_tokens |-> MaxTok, output_tokens |-> 0]}

\* the vendor error of a run of main: a rejected key, which no adapter retries
MainErrorTexts == {"Error code: 401 - invalid x-api-key"}

\* the results call_func(system_prompt, human_prompt, model=model, ...) returns
AdapterResults(provider_key, m, system_prompt, prompt) ==
    CASE provider_key = "claude" ->
           {ClaudeSuccess([text |-> a.text,
                           usage |-> <<[input_tokens  |-> a.input_tokens,
                                        output_tokens |-> a.output_tokens]>>], m) :
                a \in MainAnswers}
           \cup {ClaudeError(e, m) : e \in MainErrorTexts}
      [] provider_key = "openai" ->
           {OpenAISuccess([text |-> a.text,
                           usage |-> <<[prompt_tokens     |-> a.input_tokens,
                                        completion_tokens |-> a.output_tokens,
                                        total_tokens      |-> a.input_tokens
                                                              + a.output_tokens]>>], m) :
                a \in MainAnswers}
           \cup {OpenAIError(e, m) : e \in MainErrorTexts}
      [] provider_key = "gemini" ->
           {GeminiSuccess([text |-> a.text,
                           usage_metadata |->
                               <<[prompt_token_count     |-> a.input_tokens,
                                  candidates_token_count |-> a.output_tokens]>>],
                          m, system_prompt, prompt) :
                a \in MainAnswers}
           \cup {GeminiError(e, m) : e \in MainErrorTexts}

\* the record kept of an adapter invocation: its arguments and what it returned
Invocation(provider_key, m, system_prompt, prompt, r) ==
    [adapter |-> provider_key, model |-> m, system_prompt |-> system_prompt,
     human_prompt |-> prompt, result |-> r]

\* mutant: range(num_calls + 1), one pass too many
CallsLeftInclusive(c, num_calls) == c < num_calls

\* `for call_num in range(num_calls)`: another pass follows pass c
CallsLeft(c, num_calls) == c + 1 < num_calls

\* mutant: every element is followed by the separator, the last one too
RECURSIVE JoinTrailing(_, _)
JoinTrailing(sep, xs) ==
    IF Len(xs) = 0 THEN ""
    ELSE xs[1] \o sep \o JoinTrailing(sep, Tail(xs))

\* sep.join(xs)
RECURSIVE Join(_, _)
Join(sep, xs) ==
    IF Len(xs) = 0 THEN ""
    ELSE IF Len(xs) = 1 THEN xs[1]
    ELSE xs[1] \o sep \o Join(sep, Tail(xs))

Separator == "\n\n---\n\n"

\* mutant: `=` for `+=`, the usage of the latest call replaces the total
AddUsageLast(total, usage) == usage

\* total_usage after `total_usage[...] += usage.get(..., 0)` for the three fields
AddUsage(total, usage) ==
    [input_tokens  |-> total.input_tokens + usage.input_tokens,
     output_tokens |-> total.output_tokens + usage.output_tokens,
     total_tokens  |-> total.total_tokens + usage.total_tokens]

\* mutant: the single call is wrapped like any other number of calls
StoredEntryAlwaysWrapped(num_calls, m, rs, usage) ==
    LET all_contents == [i \in 1..Len(rs) |-> rs[i].content.str]
    IN  [content |-> PyStr("[" \o ToString(num_calls) \o " calls made]\n"
                           \o Join(Separator, all_contents)),
         model   |-> m,
         usage   |-> usage,
         individual_responses |-> rs]

\* mutant: the responses are collected latest first
StoredEntryReversed(num_calls, m, rs, usage) ==
    IF num_calls = 1
    THEN rs[1]
    ELSE LET reversed == [i \in 1..Len(rs) |-> rs[Len(rs) + 1 - i]]
             all_contents == [i \in 1..Len(rs) |-> reversed[i].content.str]
         IN  [content |-> PyStr("[" \o ToString(num_calls) \o " calls made]\n"
                                \o Join(Separator, all_contents)),
              model   |-> m,
              usage   |-> usage,
              individual_responses |-> reversed]

\* the entry stored for a provider once its calls are made
StoredEntry(num_calls, m, rs, usage) ==
    IF num_calls = 1
    THEN rs[1]
    ELSE LET all_contents == [i \in 1..Len(rs) |-> rs[i].content.str]
         IN  [content |-> PyStr("[" \o ToString(num_calls) \o " calls made]\n"
                                \o Join(Separator, all_contents)),
              model   |-> m,
              usage   |-> usage,
              individual_responses |-> rs]

\* d[key] = value
DictSet(d, key, value) ==
    [k \in DOMAIN d \cup {key} |-> IF k = key THEN value ELSE d[k]]

\* the locals of compare_providers / of the single-provider loop, as they are
\* before the first call to a provider
FreshProvider ==
    /\ call_num' = 0
    /\ provider_responses' = <<>>
    /\ total_usage' = ZeroUsage

\* main up to the mode it runs in: --list-tiers, the prompt check, the mode,
\* the credential gate
main ==
    /\ mpc = "main"
    /\ UNCHANGED adapterVars
    /\ UNCHANGED <<args, responses, synthesis_response, total_cost, invocations>>
    /\ FreshProvider
    /\ IF args.list_tiers
       THEN mpc' = "returned" /\ provider_idx' = 0
       ELSE IF args.system_prompt = "" \/ args.human_prompt = ""
       THEN mpc' = "usage_error" /\ provider_idx' = 0
       ELSE LET use_single_provider == args.provider # "" /\ ~args.compare
                keys ==
                    IF use_single_provider
                    THEN CASE args.provider = "claude" -> check_api_key(env)
                           [] args.provider = "openai" -> check_openai_api_key(env)
                           [] args.provider = "gemini" -> check_gemini_api_key(env)
                    ELSE /\ check_api_key(env)
                         /\ check_openai_api_key(env)
                         /\ check_gemini_api_key(env)
            IN  IF ~keys
                THEN mpc' = "exit" /\ provider_idx' = 0
                ELSE IF use_single_provider
                THEN mpc' = "single" /\ provider_idx' = 0
                ELSE mpc' = "compare" /\ provider_idx' = 1

\* one call of compare_providers to the current provider; after the last of
\* its num_calls calls the provider's entry is stored and the next provider
\* is taken up, or the mapping is returned
compare_providers ==
    /\ mpc = "compare"
    /\ UNCHANGED adapterVars
    /\ UNCHANGED <<args, synthesis_response, total_cost>>
    /\ LET tier_config == TIERS[args.tier]
           p == providers(tier_config)[provider_idx]
       IN  \E response \in AdapterResults(p.provider_key, p.model,
                                          args.system_prompt, args.human_prompt) :
              LET rs    == Append(provider_responses, response)
                  usage == AddUsage(total_usage, response.usage)
              IN  /\ invocations' = Append(invocations,
                                           Invocation(p.provider_key, p.model,
                                                      args.system_prompt,
                                                      args.human_prompt, response))
                  /\ IF CallsLeft(call_num, args.num_calls)
                     THEN /\ call_num' = call_num + 1
                          /\ provider_responses' = rs
                          /\ total_usage' = usage
                          /\ UNCHANGED <<responses, provider_idx, mpc>>
                     ELSE /\ responses' = DictSet(responses, p.provider_key,
                                                  StoredEntry(args.num_calls, p.model,
                                                              rs, usage))
                          /\ FreshProvider
                          /\ IF provider_idx < Len(providers(tier_config))
                             THEN provider_idx' = provider_idx + 1 /\ mpc' = mpc
                             ELSE provider_idx' = provider_idx /\ mpc' = "compared"

\* mutant: the Gemini slot repeats the OpenAI response
SynthesisPromptRepeated(rsp, prompt) ==
    "Based on the following three AI responses to the same question, create a synthesized answer that combines the best insights from all three responses.\n\nOriginal Question: "
    \o prompt
    \o "\n\nClaude Response: " \o rsp["claude"].content.str
    \o "\n\nOpenAI Response: " \o rsp["openai"].content.str
    \o "\n\nGemini Response: " \o rsp["openai"].content.str
    \o "\n\nSynthesize these into one comprehensive response that captures the best elements from all three while maintaining coherence and eliminating redundancy."

\* the meta-prompt of synthesize_responses
SynthesisPrompt(rsp, prompt) ==
    "Based on the following three AI responses to the same question, create a synthesized answer that combines the best insights from all three responses.\n\nOriginal Question: "
    \o prompt
    \o "\n\nClaude Response: " \o rsp["claude"].content.str
    \o "\n\nOpenAI Response: " \o rsp["openai"].content.str
    \o "\n\nGemini Response: " \o rsp["gemini"].content.str
    \o "\n\nSynthesize these into one comprehensive response that captures the best elements from all three while maintaining coherence and eliminating redundancy."

SynthesisSystemPrompt ==
    "You are an expert synthesizer. Combine insights from multiple AI responses into one coherent, comprehensive answer."

\* `if args.synthesize:` of main, after compare_providers has returned
synthesize_responses ==
    /\ mpc = "compared"
    /\ args.synthesize
    /\ UNCHANGED adapterVars
    /\ UNCHANGED <<args, provider_idx, call_num, provider_responses, total_usage,
                   responses, total_cost>>
    /\ LET synthesis_prompt == SynthesisPrompt(responses, args.human_prompt)
           m == TIERS[args.tier].synthesis
       IN  \E r \in AdapterResults("claude", m, SynthesisSystemPrompt,
                                  synthesis_prompt) :
              /\ synthesis_response' = r
              /\ invocations' = Append(invocations,
                                       Invocation("claude", m, SynthesisSystemPrompt,
                                                  synthesis_prompt, r))
    /\ mpc' = "summary"

\* total_cost of print_cost_summary: the providers' costs, then the synthesis'
RECURSIVE SumCosts(_, _)
SumCosts(rsp, keys) ==
    IF keys = {} THEN 0
    ELSE LET k == CHOOSE x \in keys : TRUE
         IN  calculate_cost(rsp[k].usage, rsp[k].model) + SumCosts(rsp, keys \ {k})

print_cost_summary ==
    /\ \/ mpc = "summary"
       \/ mpc = "compared" /\ ~args.synthesize
    /\ UNCHANGED adapterVars
    /\ UNCHANGED <<args, provider_idx, call_num, provider_responses, total_usage,
                   responses, synthesis_response, invocations>>
    /\ total_cost' = SumCosts(responses, DOMAIN responses)
                     + (IF synthesis_response # None
                        THEN calculate_cost(synthesis_response.usage,
                                            synthesis_response.model)
                        ELSE 0)
    /\ mpc' = "returned"

\* one pass of the loop of the single-provider mode of main; its list
\* `responses` is held in provider_responses
main_single_provider ==
    /\ mpc = "single"
    /\ UNCHANGED adapterVars
    /\ UNCHANGED <<args, provider_idx, responses, synthesis_response>>
    /\ LET tier_config == TIERS[args.tier]
           m == tier_config[args.provider]
       IN  \E response \in AdapterResults(args.provider, m, args.system_prompt,
                                          args.human_prompt) :
              /\ invocations' = Append(invocations,
                                       Invocation(args.provider, m,
                                                  args.system_prompt,
                                                  args.human_prompt, response))
              /\ provider_responses' = Append(provider_responses, response)
              /\ total_usage' = AddUsage(total_usage, response.usage)
              /\ total_cost' = total_cost
                               + calculate_cost(response.usage, response.model)
              /\ call_num' = call_num + 1
              /\ mpc' = IF CallsLeft(call_num, args.num_calls)
                        THEN "single" ELSE "returned"

\* the float total_cost holds after `total_cost += call_cost` for the first n
\* results of the list
RECURSIVE TotalCostFloat(_, _)
TotalCostFloat(rs, n) ==
    IF n = 0 THEN FloatZero
    ELSE FloatAdd(TotalCostFloat(rs, n - 1),
                  calculate_costFloat(rs[n].usage, rs[n].model))

\* no adapter invocation is under way
AdapterIdle ==
    /\ pc = "idle"
    /\ adapter = "claude"
    /\ model = "gpt-4"
    /\ human_prompt = "Hi"
    /\ max_retries = 0
    /\ search_enabled = FALSE
    /\ search_results = <<>>
    /\ user_message = ""
    /\ attempt = 0
    /\ calls = 0
    /\ sleeps = 0
    /\ wait_time = 0
    /\ error_str = ""
    /\ trace = <<>>
    /\ result = None

InitMain ==
    /\ AdapterIdle
    /\ env \in MainEnvs
    /\ args \in CommandLines
    /\ mpc = "main"
    /\ provider_idx = 0
    /\ call_num = 0
    /\ provider_responses = <<>>
    /\ total_usage = ZeroUsage
    /\ responses = EmptyDict
    /\ synthesis_response = None
    /\ total_cost = 0
    /\ invocations = <<>>

NextMain ==
    \/ main
    \/ compare_providers
    \/ synthesize_responses
    \/ print_cost_summary
    \/ main_single_provider

SpecMain == InitMain /\ [][NextMain]_vars

(***************************************************************************)
(* calculate_cost on its own: `call_cost = calculate_cost(usage, model)`   *)
(* and `total_cost += call_cost`, for token counts up to a thousand and    *)
(* every model, priced or not. The usage is held in total_usage.           *)
(***************************************************************************)
CostTokenCounts == (0..MaxTok) \cup {999, 1000}

CostUsages ==
    {[input_tokens |-> i, output_tokens |-> o, total_tokens |-> i + o] :
        i \in CostTokenCounts, o \in CostTokenCounts}

\* the models of the three pricing tables and one that is in none
CostModels ==
    Models \cup DOMAIN PerplexityPricing \cup DOMAIN SearchGPTPricing

InitCost ==
    /\ env = {}
    /\ pc = "idle"
    /\ adapter = "claude"
    /\ model \in CostModels
    /\ human_prompt = "Hi"
    /\ max_retries = 0
    /\ search_enabled = FALSE
    /\ search_results = <<>>
    /\ user_message = ""
    /\ attempt = 0
    /\ calls = 0
    /\ sleeps = 0
    /\ wait_time = 0
    /\ error_str = ""
    /\ trace = <<>>
    /\ result = None
    /\ args = None
    /\ mpc = "calculate_cost"
    /\ provider_idx = 0
    /\ call_num = 0
    /\ provider_responses = <<>>
    /\ total_usage \in CostUsages
    /\ responses = EmptyDict
    /\ synthesis_response = None
    /\ total_cost = 0
    /\ invocations = <<>>

AddCallCost ==
    /\ mpc = "calculate_cost"
    /\ total_cost' = total_cost + calculate_cost(total_usage, model)
    /\ mpc' = "returned"
    /\ UNCHANGED <<env, pc, adapter, model, human_prompt, max_retries,
                   search_enabled, search_results, user_message, attempt, calls,
                   sleeps, wait_time, error_str, trace, result>>
    /\ UNCHANGED <<args, provider_idx, call_num, provider_responses, total_usage,
                   responses, synthesis_response, invocations>>

\* `cost = calculate_perplexity_cost(model, input_tokens, output_tokens)`
PerplexityCost ==
    /\ mpc = "calculate_cost"
    /\ total_cost' = calculate_perplexity_cost(model, total_usage.input_tokens,
                                               total_usage.output_tokens)
    /\ mpc' = "perplexity_cost"
    /\ UNCHANGED adapterVars
    /\ UNCHANGED <<args, provider_idx, call_num, provider_responses, total_usage,
                   responses, synthesis_response, invocations>>

\* `cost = calculate_searchgpt_cost(model, input_tokens, output_tokens)`
SearchGPTCost ==
    /\ mpc = "calculate_cost"
    /\ total_cost' = calculate_searchgpt_cost(model, total_usage.input_tokens,
                                              total_usage.output_tokens)
    /\ mpc' = "searchgpt_cost"
    /\ UNCHANGED adapterVars
    /\ UNCHANGED <<args, provider_idx, call_num, provider_responses, total_usage,
                   responses, synthesis_response, invocations>>

NextCost ==
    \/ AddCallCost
    \/ PerplexityCost
    \/ SearchGPTCost

SpecCost == InitCost /\ [][NextCost]_vars

(***************************************************************************)
(* Vocabulary of the properties.                                           *)
(***************************************************************************)
\* the outcome tags of the vendor requests, in order
CallTags == SelectSeq(trace, LAMBDA x : x # "sleep")

\* the outcome of the latest vendor request ("none" before the first)
LastCall == IF CallTags = <<>> THEN "none" ELSE CallTags[Len(CallTags)]

HasPrefix(str, prefix) ==
    Len(str) >= Len(prefix) /\ SubSeq(str, 1, Len(prefix)) = prefix

\* an error result of the Claude, OpenAI or Gemini adapter
IsMainError(r) ==
    /\ r # None
    /\ DOMAIN r = {"content", "usage", "model", "provider"}
    /\ ~r.content.isNone
    /\ HasPrefix(r.content.str, "Error calling ")

\* a result that carries a vendor's answer
IsSuccess(r) ==
    /\ r # None
    /\ "error" \notin DOMAIN r
    /\ r.provider = adapter
    /\ ~r.content.isNone
    /\ r.content.str \in ResponseTexts

\* the transient indicators an error text can carry: rate limiting, server
\* failure, timeout, overload
TransientText(e) ==
    \E ind \in {"429", "rate_limit", "500", "502", "503", "504", "timeout",
                "overloaded"} : Contains(Lower(e), ind)

\* the overload signal of the Claude adapter
OverloadText(e) == Contains(e, "529") \/ Contains(Lower(e), "overloaded")

\* an error text with none of the retryable indicators of any adapter
FatalText(e) ==
    /\ e # ""
    /\ ~TransientText(e)
    /\ ~OverloadText(e)
    /\ ~Contains(Lower(e), "quota")
    /\ ~Contains(Lower(e), "resource_exhausted")

(***************************************************************************)
(* C1. In the Claude, OpenAI and Gemini adapters, when every vendor call   *)
(* fails with an error the adapter classifies as retryable, exactly        *)
(* max_retries + 1 vendor calls are made (never more while the loop runs)  *)
(* and the value then returned is an error result.                         *)
(***************************************************************************)
OnlyRetryableFailures ==
    /\ CallTags # <<>>
    /\ \A i \in 1..Len(CallTags) : CallTags[i] = "retryable"

C1_RetryableExhaustion ==
    adapter \in MainAdapters =>
        /\ calls <= max_retries + 1
        /\ (pc = "returned" /\ OnlyRetryableFailures) =>
              /\ calls = max_retries + 1
              /\ IsMainError(result)

\* the default max_retries = 3: four failed calls, then the error result
C1_Witness ==
    /\ adapter = "openai"
    /\ pc = "returned"
    /\ max_retries = 3
    /\ OnlyRetryableFailures
    /\ calls = 4
    /\ IsMainError(result)

(***************************************************************************)
(* C2. In the Claude, OpenAI and Gemini adapters a vendor error that is    *)
(* fatal (its text carries no retryable indicator; the adapter classifies  *)
(* it as not retryable) ends the invocation at once, at any attempt index: *)
(* the error result is returned, no sleep and no vendor call follows, and  *)
(* a fatal error on the first call means exactly one attempt, no sleep.    *)
(***************************************************************************)
C2_FatalImmediate ==
    adapter \in MainAdapters =>
        /\ \A i \in 1..Len(trace) :
              trace[i] = "fatal" =>
                 /\ i = Len(trace)
                 /\ pc = "returned"
                 /\ IsMainError(result)
        /\ (LastCall \in {"retryable", "fatal"} /\ FatalText(error_str)) =>
              /\ LastCall = "fatal"
              /\ pc = "returned"
              /\ IsMainError(result)
              /\ trace[Len(trace)] = "fatal"
        /\ (trace # <<>> /\ trace[1] = "fatal") => (calls = 1 /\ sleeps = 0)

\* a fatal error at attempt index 2, after two retried failures
C2_Witness ==
    /\ adapter = "gemini"
    /\ pc = "returned"
    /\ trace = <<"retryable", "sleep", "retryable", "sleep", "fatal">>
    /\ FatalText(error_str)
    /\ calls = 3
    /\ sleeps = 2

(***************************************************************************)
(* C3. Every invocation of each of the five adapters, for every            *)
(* max_retries >= 0 and every sequence of vendor outcomes, ends by         *)
(* returning a result object with usage and model fields: no exception     *)
(* leaves the adapter and the value returned is never None.                *)
(***************************************************************************)
C3_AlwaysWellFormedResult ==
    /\ pc # "raised"
    /\ pc = "returned" =>
          /\ result # None
          /\ {"usage", "model"} \subseteq DOMAIN result

(***************************************************************************)
(* C4 as claimed. In the Claude, OpenAI and Gemini adapters an error whose *)
(* text carries a transient indicator (429, rate_limit, 500, 502, 503,     *)
(* 504, timeout, overloaded) is never answered by the terminal error       *)
(* result while attempts remain.                                           *)
(***************************************************************************)
C4_TransientRetried_AsClaimed ==
    (/\ adapter \in MainAdapters
     /\ pc = "returned"
     /\ LastCall \in {"retryable", "fatal"}
     /\ TransientText(error_str))
    => attempt >= max_retries

(***************************************************************************)
(* C4. In the OpenAI and Gemini adapters an error whose text carries a     *)
(* transient indicator, and in the Claude adapter an error whose text      *)
(* carries the overload signal ("529" or "overloaded"), is followed while  *)
(* attempts remain by a backoff sleep and the next pass of the loop, not   *)
(* by the terminal error result; every other error of the Claude adapter,  *)
(* a rate limit (429), server failure or timeout included, is answered by  *)
(* the terminal error result at once.                                      *)
(***************************************************************************)
RetriedText(a, e) ==
    IF a = "claude" THEN OverloadText(e) ELSE TransientText(e)

C4_TransientRetried ==
    (adapter \in MainAdapters /\ LastCall \in {"retryable", "fatal"}) =>
        /\ (pc = "returned" /\ RetriedText(adapter, error_str)) =>
              attempt >= max_retries
        /\ (pc = "attempt" /\ RetriedText(adapter, error_str)) =>
              /\ trace[Len(trace)] = "sleep"
              /\ sleeps = calls
              /\ attempt = calls
              /\ attempt <= max_retries
        /\ (adapter = "claude" /\ ~OverloadText(error_str)) =>
              /\ pc = "returned"
              /\ IsMainError(result)
              /\ trace[Len(trace)] = "fatal"

\* OpenAI: a rate-limit error on the first call was slept on; the second
\* call is due
C4_Witness ==
    /\ adapter = "openai"
    /\ pc = "attempt"
    /\ Contains(error_str, "429")
    /\ trace = <<"retryable", "sleep">>
    /\ attempt = 1

(***************************************************************************)
(* C5. In the Perplexity and SearchGPT adapters an invocation whose every  *)
(* vendor request fails with a retryable error (HTTP 429, HTTP 5xx,        *)
(* timeout, rate-limit error) makes exactly max_retries + 1 requests       *)
(* before it returns.                                                      *)
(***************************************************************************)
HttpRetryableTags == {"http429", "http5xx", "Timeout", "RateLimitError",
                      "InternalServerError"}

C5_HttpAttemptsInclusive ==
    (/\ adapter \in HttpAdapters
     /\ pc = "returned"
     /\ CallTags # <<>>
     /\ \A i \in 1..Len(CallTags) : CallTags[i] \in HttpRetryableTags)
    => calls = max_retries + 1

(***************************************************************************)
(* C6. In the Perplexity and SearchGPT adapters a fatal provider error (an *)
(* HTTP 4xx other than 429, the SDK's error for such a status) ends the    *)
(* invocation after that one request: no sleep and no request follows it.  *)
(***************************************************************************)
HttpFatalTags == {"http4xx", "AuthenticationError"}

C6_HttpFatalImmediate ==
    adapter \in HttpAdapters =>
        \A i \in 1..Len(trace) :
            trace[i] \in HttpFatalTags =>
                /\ i = Len(trace)
                /\ pc = "returned"
                /\ (i = 1 => (calls = 1 /\ sleeps = 0))

(***************************************************************************)
(* C7. In every adapter the first vendor call that succeeds ends the retry *)
(* loop: the success result is returned, and no vendor call and no sleep   *)
(* follows the success within the invocation.                              *)
(***************************************************************************)
C7_SuccessEndsLoop ==
    \A i \in 1..Len(trace) :
        trace[i] = "ok" =>
            /\ i = Len(trace)
            /\ pc = "returned"
            /\ IsSuccess(result)
            /\ calls = Len(CallTags)

\* Perplexity: a success on the second request, after one retried failure
C7_Witness ==
    /\ adapter = "perplexity"
    /\ pc = "returned"
    /\ Len(trace) = 3
    /\ trace[2] = "sleep"
    /\ trace[3] = "ok"
    /\ IsSuccess(result)

(***************************************************************************)
(* C8 as claimed. In the Claude, OpenAI and Gemini adapters the sleep      *)
(* after the failed retryable attempt of index k lies in [2^k, 2^k + 1)    *)
(* seconds. (Attempt k is the (k+1)-th to be slept on: k = sleeps - 1.)    *)
(***************************************************************************)
C8_BackoffHalfOpen_AsClaimed ==
    (adapter \in MainAdapters /\ sleeps >= 1) =>
        /\ wait_time >= Pow2(sleeps - 1) * Unit
        /\ wait_time < (Pow2(sleeps - 1) + 1) * Unit

(***************************************************************************)
(* C8. In the Claude, OpenAI and Gemini adapters the sleep after the       *)
(* failed retryable attempt of index k lies in [2^k, 2^k + 1] seconds,     *)
(* the upper end included: the float sum 2^k + r is rounded and reaches    *)
(* 2^k + 1 for the largest values r of random.random(). Every delay is at  *)
(* least 2^k, the delays of successive retries never decrease, and they    *)
(* increase strictly from the second delay on.                             *)
(***************************************************************************)
C8_BackoffRange ==
    (adapter \in MainAdapters /\ sleeps >= 1) =>
        /\ wait_time >= Pow2(sleeps - 1) * Unit
        /\ wait_time <= (Pow2(sleeps - 1) + 1) * Unit

C8_BackoffClosed ==
    /\ []C8_BackoffRange
    /\ [][(adapter \in MainAdapters /\ sleeps >= 1 /\ sleeps' = sleeps + 1) =>
             /\ wait_time' >= wait_time
             /\ (sleeps >= 2 => wait_time' > wait_time)]_vars

\* the third delay of an invocation (attempt index 2) has been taken
C8_Witness ==
    /\ adapter = "claude"
    /\ pc = "attempt"
    /\ sleeps = 3
    /\ attempt = 3
    /\ wait_time >= 4 * Unit

(***************************************************************************)
(* C9. Every result the Claude, OpenAI or Gemini adapter returns on a      *)
(* failure path (a fatal error, or a retryable error with the attempts     *)
(* exhausted) has usage {0, 0, 0}, and calculate_cost of that usage is 0   *)
(* for every model, in the pricing table or not.                           *)
(***************************************************************************)
C9_FailureZeroUsage ==
    (/\ adapter \in MainAdapters
     /\ pc = "returned"
     /\ LastCall \in {"retryable", "fatal"})
    => /\ result # None
       /\ result.usage = ZeroUsage
       /\ \A m \in Models : calculate_cost(result.usage, m) = 0
       /\ calculate_cost(result.usage, result.model) = 0

\* Gemini, a model of the pricing table, the attempts exhausted
C9_Witness ==
    /\ adapter = "gemini"
    /\ pc = "returned"
    /\ model = "gpt-4"
    /\ max_retries = 1
    /\ trace = <<"retryable", "sleep", "retryable">>
    /\ result.usage = ZeroUsage

(***************************************************************************)
(* C10. Every result an adapter returns on the success path has            *)
(* total_tokens = input_tokens + output_tokens, whatever the vendor        *)
(* reports, its own total included.                                        *)
(***************************************************************************)
C10_TotalIsSum ==
    (pc = "returned" /\ LastCall = "ok") =>
        result.usage.total_tokens =
            result.usage.input_tokens + result.usage.output_tokens

(***************************************************************************)
(* Properties of the orchestrator (main.py), checked under SpecMain.       *)
(***************************************************************************)
\* the order in which the spec lists the providers
FixedOrder == <<"claude", "openai", "gemini">>

\* position of a provider in that order
OrderIndex(k) == CHOOSE i \in 1..Len(FixedOrder) : FixedOrder[i] = k

\* a result of the failure path of a main adapter
IsErrorResult(r) == HasPrefix(r.content.str, "Error calling ")

\* compare_providers is running or has just returned
InComparison == mpc \in {"compare", "compared"}

\* number of invocations of adapter k so far
InvocationCount(k) ==
    Cardinality({i \in 1..Len(invocations) : invocations[i].adapter = k})

\* C11: whatever the tier, the number of calls and the outcomes of the calls,
\* the mapping compare_providers returns has exactly the keys claude, openai
\* and gemini, and each entry's model is the one the tier configures for
\* that provider.
C11_ComparisonMapping ==
    mpc = "compared" =>
        /\ DOMAIN responses = {"claude", "openai", "gemini"}
        /\ \A k \in DOMAIN responses : responses[k].model = TIERS[args.tier][k]

\* a returned comparison of the luxury tier, two calls each, in which Claude's
\* first call failed and OpenAI's first call succeeded
C11_Witness ==
    /\ mpc = "compared"
    /\ args.tier = "luxury"
    /\ args.num_calls = 2
    /\ IsErrorResult(responses["claude"].individual_responses[1])
    /\ ~IsErrorResult(responses["openai"].individual_responses[1])
    /\ responses["openai"].model = "gpt-4"

\* C12: the providers are invoked in the order claude, openai, gemini, all
\* num_calls invocations of one before the first of the next; a provider is
\* in the mapping exactly when its calls are made, whatever they returned,
\* and the comparison returns only after all three had their calls.
C12_FixedOrder ==
    InComparison =>
        /\ Len(invocations) <= 3 * args.num_calls
        /\ \A i \in 1..Len(invocations) :
              i <= 3 * args.num_calls =>
                invocations[i].adapter = FixedOrder[((i - 1) \div args.num_calls) + 1]
        /\ \A k \in {"claude", "openai", "gemini"} :
              k \in DOMAIN responses
                <=> OrderIndex(k) * args.num_calls <= Len(invocations)
        /\ mpc = "compared" => Len(invocations) = 3 * args.num_calls

\* both calls to Claude failed, OpenAI and Gemini were invoked after them and
\* Claude's entry is in the returned mapping
C12_Witness ==
    /\ mpc = "compared"
    /\ args.num_calls = 2
    /\ IsErrorResult(invocations[1].result)
    /\ IsErrorResult(invocations[2].result)
    /\ invocations[3].adapter = "openai"
    /\ invocations[5].adapter = "gemini"
    /\ ~IsErrorResult(invocations[6].result)
    /\ "claude" \in DOMAIN responses

\* C13: compare_providers never invokes an adapter more than num_calls times,
\* and when it returns every adapter was invoked exactly num_calls times,
\* whether its results were successes or errors.
C13_NoOrchestratorRetry ==
    InComparison =>
        \A k \in {"claude", "openai", "gemini"} :
            /\ InvocationCount(k) <= args.num_calls
            /\ mpc = "compared" => InvocationCount(k) = args.num_calls

\* a one-call comparison in which OpenAI's call failed and the next
\* invocation went to Gemini
C13_Witness ==
    /\ mpc = "compared"
    /\ args.num_calls = 1
    /\ invocations[2].adapter = "openai"
    /\ IsErrorResult(invocations[2].result)
    /\ invocations[3].adapter = "gemini"
    /\ InvocationCount("openai") = 1

\* the result of the j-th call made to provider k by compare_providers
CallResult(k, j) == invocations[(OrderIndex(k) - 1) * args.num_calls + j].result

\* C14: with num_calls = 1 the entry stored for a provider is the result its
\* one adapter call returned, field for field: content, usage, model and
\* provider, no "[1 calls made]" prefix, no individual_responses.
C14_SingleCallUnwrapped ==
    (InComparison /\ args.num_calls = 1) =>
        \A k \in DOMAIN responses :
            /\ responses[k] = CallResult(k, 1)
            /\ DOMAIN responses[k] = {"content", "usage", "model", "provider"}
            /\ responses[k].provider = k
            /\ ~HasPrefix(responses[k].content.str, "[1 calls made]")

\* a one-call comparison whose Claude entry is the answer of the call and
\* whose Gemini entry is the error result of the call
C14_Witness ==
    /\ mpc = "compared"
    /\ args.num_calls = 1
    /\ responses["claude"].content.str = "Paris."
    /\ responses["claude"].usage.total_tokens = 2000
    /\ IsErrorResult(responses["gemini"])
    /\ responses["gemini"] = invocations[3].result

\* sum of one usage field over the first j calls made to provider k
RECURSIVE UsageSum(_, _, _)
UsageSum(k, j, field) ==
    IF j = 0 THEN 0
    ELSE UsageSum(k, j - 1, field) + CallResult(k, j).usage[field]

\* C15: with num_calls = n > 1 the usage of a provider's entry is, field by
\* field, the sum of the usage of its n results, failed calls (zero usage)
\* counted like successful ones.
C15_AggregatedUsage ==
    (InComparison /\ args.num_calls > 1) =>
        \A k \in DOMAIN responses :
            \A field \in {"input_tokens", "output_tokens", "total_tokens"} :
                responses[k].usage[field] = UsageSum(k, args.num_calls, field)

\* three calls to OpenAI: an answer, a failure, another answer; the entry
\* carries the sum of the three
C15_Witness ==
    /\ mpc = "compared"
    /\ args.num_calls = 3
    /\ CallResult("openai", 1).usage.input_tokens = 1000
    /\ IsErrorResult(CallResult("openai", 2))
    /\ CallResult("openai", 3).usage.input_tokens = MaxTok
    /\ responses["openai"].usage.input_tokens = 1000 + MaxTok
    /\ responses["openai"].usage.total_tokens = 2000 + MaxTok

\* the contents of the first j calls made to provider k, joined in call order
RECURSIVE ContentsInCallOrder(_, _)
ContentsInCallOrder(k, j) ==
    IF j = 1 THEN CallResult(k, 1).content.str
    ELSE ContentsInCallOrder(k, j - 1) \o "\n\n---\n\n"
         \o CallResult(k, j).content.str

\* C16: with num_calls = n > 1 individual_responses holds the n results in
\* the order of the calls, and the content is "[n calls made]" and a newline
\* followed by the n contents in that order.
C16_CallOrder ==
    (InComparison /\ args.num_calls > 1) =>
        \A k \in DOMAIN responses :
            /\ Len(responses[k].individual_responses) = args.num_calls
            /\ \A j \in 1..args.num_calls :
                  responses[k].individual_responses[j] = CallResult(k, j)
            /\ responses[k].content.str =
                  "[" \o ToString(args.num_calls) \o " calls made]\n"
                  \o ContentsInCallOrder(k, args.num_calls)

\* three calls to Claude with three different contents, kept in call order
C16_Witness ==
    /\ mpc = "compared"
    /\ args.num_calls = 3
    /\ IsErrorResult(CallResult("claude", 1))
    /\ CallResult("claude", 2).content.str = "Paris."
    /\ CallResult("claude", 3).content.str = "---\n\nParis.\n\n---"
    /\ responses["claude"].individual_responses[3].content.str
         = "---\n\nParis.\n\n---"

\* s.count(sub) from position i on: occurrences found left to right, none
\* overlapping the one before
RECURSIVE CountFrom(_, _, _)
CountFrom(s, sub, i) ==
    LET starts == {j \in i..(Len(s) - Len(sub) + 1) :
                      SubSeq(s, j, j + Len(sub) - 1) = sub}
    IN  IF starts = {} THEN 0
        ELSE LET first == CHOOSE j \in starts : \A x \in starts : j <= x
             IN  1 + CountFrom(s, sub, first + Len(sub))

SeparatorCount(s) == CountFrom(s, "\n\n---\n\n", 1)

\* C17 as claimed: for n calls the aggregated content holds exactly n - 1
\* occurrences of the separator (2 for num_calls = 3), whatever the contents.
C17_SeparatorCount_AsClaimed ==
    (InComparison /\ args.num_calls > 1) =>
        \A k \in DOMAIN responses :
            SeparatorCount(responses[k].content.str) = args.num_calls - 1

\* C17: for n calls the aggregated content holds at least n - 1 occurrences
\* of the separator, and exactly n - 1 (2 for num_calls = 3) when none of
\* the n contents contains the rule "---".
C17_SeparatorCount ==
    (InComparison /\ args.num_calls > 1) =>
        \A k \in DOMAIN responses :
            /\ SeparatorCount(responses[k].content.str) >= args.num_calls - 1
            /\ (\A j \in 1..args.num_calls :
                    ~Contains(CallResult(k, j).content.str, "---"))
                 => SeparatorCount(responses[k].content.str) = args.num_calls - 1

\* three calls to Gemini, none of the contents holds a rule, two separators
C17_Witness ==
    /\ mpc = "compared"
    /\ args.num_calls = 3
    /\ \A j \in 1..3 : ~Contains(CallResult("gemini", j).content.str, "---")
    /\ ~IsErrorResult(CallResult("gemini", 1))
    /\ IsErrorResult(CallResult("gemini", 2))
    /\ SeparatorCount(responses["gemini"].content.str) = 2

\* main runs a single provider: --provider without --compare
UseSingleProvider == args.provider # "" /\ ~args.compare

\* the credential of a provider
KeyOf(p) ==
    CASE p = "claude" -> "ANTHROPIC_API_KEY"
      [] p = "openai" -> "OPENAI_API_KEY"
      [] p = "gemini" -> "GEMINI_API_KEY"

\* main has not gone past its pre-flight checks and has invoked no adapter
NothingInvoked ==
    /\ invocations = <<>>
    /\ mpc \in {"main", "returned", "usage_error", "exit"}

\* C18: in multi-provider mode a run with any of the three keys absent never
\* invokes an adapter; in single-provider mode the same holds when the
\* selected provider's key is absent, and a run whose selected key is
\* present is not aborted for a credential, whatever the other two are.
C18_CredentialGate ==
    mpc # "library" =>
        /\ (~UseSingleProvider
              /\ {"ANTHROPIC_API_KEY", "OPENAI_API_KEY", "GEMINI_API_KEY"} \ env # {})
             => NothingInvoked
        /\ (UseSingleProvider /\ KeyOf(args.provider) \notin env) => NothingInvoked
        /\ (UseSingleProvider /\ KeyOf(args.provider) \in env) => mpc # "exit"

\* --provider openai --compare with only the Gemini key absent: the run has
\* exited at the gate, nothing was invoked
C18_Witness ==
    /\ mpc = "exit"
    /\ args.provider = "openai"
    /\ args.compare
    /\ env = {"ANTHROPIC_API_KEY", "OPENAI_API_KEY"}
    /\ invocations = <<>>

\* main is in comparison mode, in or after compare_providers
ComparisonRun ==
    \/ mpc \in {"compare", "compared", "summary"}
    \/ mpc = "returned" /\ ~args.list_tiers /\ ~UseSingleProvider

\* the latest adapter invocation
LastInvocation == invocations[Len(invocations)]

\* C19: a comparison makes one adapter invocation beyond the 3 * num_calls of
\* compare_providers exactly when --synthesize is given; that invocation goes
\* to the Claude adapter with the tier's synthesis model, is made when all
\* three entries are in the mapping, and its prompt holds the human prompt
\* and the three stored contents, each verbatim in its slot.
C19_SynthesisOnce ==
    ComparisonRun =>
        LET n == 3 * args.num_calls
        IN  /\ Len(invocations) <= n + 1
            /\ mpc = "summary" => Len(invocations) = n + 1
            /\ mpc = "returned" =>
                  Len(invocations) = n + (IF args.synthesize THEN 1 ELSE 0)
            /\ Len(invocations) = n + 1 =>
                  /\ args.synthesize
                  /\ DOMAIN responses = {"claude", "openai", "gemini"}
                  /\ LastInvocation.adapter = "claude"
                  /\ LastInvocation.model = TIERS[args.tier].synthesis
                  /\ Contains(LastInvocation.human_prompt,
                              "Original Question: " \o args.human_prompt \o "\n\n")
                  /\ Contains(LastInvocation.human_prompt,
                              "Claude Response: "
                              \o responses["claude"].content.str \o "\n\n")
                  /\ Contains(LastInvocation.human_prompt,
                              "OpenAI Response: "
                              \o responses["openai"].content.str \o "\n\n")
                  /\ Contains(LastInvocation.human_prompt,
                              "Gemini Response: "
                              \o responses["gemini"].content.str \o "\n\n")

\* a mid-tier comparison of two calls each, synthesized: the seventh
\* invocation is the synthesis call, made with the sonnet model over three
\* entries of which Claude's holds a failed call
C19_Witness ==
    /\ mpc = "summary"
    /\ args.tier = "mid"
    /\ args.num_calls = 2
    /\ Len(invocations) = 7
    /\ invocations[7].model = "claude-3-5-sonnet-20241022"
    /\ IsErrorResult(invocations[1].result)
    /\ ~IsErrorResult(synthesis_response)
    /\ responses["openai"].content.str # responses["gemini"].content.str

C21_DefaultRate ==
    /\ mpc = "perplexity_cost" =>
          /\ total_cost >= 0
          /\ model \notin DOMAIN PerplexityPricing =>
                /\ total_cost = calculate_perplexity_cost(
                                    "llama-3.1-sonar-small-128k-online",
                                    total_usage.input_tokens,
                                    total_usage.output_tokens)
                /\ total_cost = 20 * (total_usage.input_tokens
                                      + total_usage.output_tokens)
    /\ mpc = "searchgpt_cost" =>
          /\ total_cost >= 0
          /\ model \notin DOMAIN SearchGPTPricing =>
                /\ total_cost = calculate_searchgpt_cost(
                                    "gpt-4o-mini", total_usage.input_tokens,
                                    total_usage.output_tokens)
                /\ total_cost = 15 * total_usage.input_tokens
                                + 60 * total_usage.output_tokens
    /\ (mpc = "returned" /\ args = None) => total_cost >= 0

\* the Perplexity calculator has charged a model it does not list for 1000
\* input tokens
C21_Witness ==
    /\ mpc = "perplexity_cost"
    /\ model = "unknown-model-x"
    /\ total_usage.input_tokens = 1000
    /\ total_usage.output_tokens = 0
    /\ total_cost = 20000

(***************************************************************************)
(* Further properties of the adapters, checked under Spec.                 *)
(***************************************************************************)
\* the latest request of the Perplexity adapter was answered 429 while
\* attempts remained, and nothing was requested since
RateLimitedWithAttemptsLeft ==
    /\ adapter = "perplexity"
    /\ pc \in {"attempt", "returned"}
    /\ LastCall = "http429"
    /\ calls < max_retries

\* the adapter has slept after its latest request and goes on to the next
SleptAndGoesOn ==
    /\ pc = "attempt"
    /\ trace # <<>>
    /\ trace[Len(trace)] = "sleep"

\* C22: after a 429 received while attempts remain the Perplexity adapter
\* sleeps and goes on to the next attempt; the sleep lasts what the
\* Retry-After header says (2 seconds where a response carries one) or, the
\* header absent, the computed backoff 2^attempt of that attempt.
C22_RetryAfterHonoured ==
    RateLimitedWithAttemptsLeft =>
        /\ SleptAndGoesOn
        /\ \/ wait_time = 2 * Unit
           \/ wait_time = Pow2(calls - 1) * Unit

\* C30: a 429 received by the Perplexity adapter while attempts remain is
\* always followed by a sleep and a further request, whatever the headers of
\* the response hold.
C30_RateLimitAlwaysRetried ==
    RateLimitedWithAttemptsLeft => SleptAndGoesOn

\* a SearchGPT invocation that has returned, made with the model credential
\* in the environment and with at least one attempt allowed
SearchGPTReturnedWithModelKey ==
    /\ adapter = "searchgpt"
    /\ pc = "returned"
    /\ "OPENAI_API_KEY" \in env
    /\ max_retries >= 1

\* the search step contributed nothing: no search credential, or no results
SearchUnavailable ==
    \/ "SERPER_API_KEY" \notin env
    \/ search_results = <<>>

\* C23: SearchGPT never fails solely because search is unavailable: with the
\* model credential present and the search credential absent or the search
\* returning nothing, the adapter still calls the model with the original,
\* unmodified user prompt and returns what that call produced, whether
\* search_enabled is true or false.
C23_SearchOptional ==
    (SearchGPTReturnedWithModelKey /\ SearchUnavailable) =>
        /\ calls >= 1
        /\ user_message = human_prompt
        /\ "error" \in DOMAIN result =>
               result.error # "SearchGPT API keys not configured"

\* C24: with search_enabled true, a search that yields zero results and a
\* successful model call, the result is a success with search_enhanced false
\* and search_results empty, and the user message sent to the model is the
\* original prompt; the prompt is rewritten only when there is at least one
\* search result.
C24_EmptySearchNotEnhanced ==
    (adapter = "searchgpt" /\ pc \in {"attempt", "returned", "raised"}) =>
        /\ (search_enabled /\ search_results = <<>>) =>
               user_message = human_prompt
        /\ (search_enabled /\ search_results = <<>> /\ pc = "returned"
              /\ LastCall = "ok") =>
               /\ "error" \notin DOMAIN result
               /\ result.content # PyNone
               /\ result.search_enhanced = FALSE
               /\ result.search_results = <<>>
        /\ user_message # human_prompt =>
               (search_enabled /\ Len(search_results) >= 1)

C24_Witness ==
    /\ adapter = "searchgpt"
    /\ pc = "returned"
    /\ search_enabled
    /\ search_results = <<>>
    /\ LastCall = "ok"
    /\ "error" \notin DOMAIN result
    /\ result.search_enhanced = FALSE
    /\ user_message = human_prompt

GeminiSucceeded ==
    /\ adapter = "gemini"
    /\ pc = "returned"
    /\ LastCall = "ok"

\* the character-count estimates of the claim
EstimatedInput == Len(SystemPrompt \o human_prompt) \div 4

EstimatedOutput == Len(result.content.str) \div 4

C27_SleepsBetweenCalls ==
    /\ (pc \in {"returned", "raised"} /\ calls >= 1) =>
           /\ sleeps = calls - 1
           /\ trace[Len(trace)] # "sleep"
    /\ (pc \in {"returned", "raised"} /\ calls = 0) => sleeps = 0
    /\ pc = "attempt" => sleeps = calls
    /\ (trace # <<>>) => trace[1] # "sleep"

\* a retry budget used up: sleeps between the calls, none after the last
C27_Witness ==
    /\ pc = "returned"
    /\ adapter = "gemini"
    /\ calls = max_retries + 1
    /\ calls >= 3
    /\ sleeps = calls - 1
    /\ LastCall = "retryable"

MainReturned == adapter \in MainAdapters /\ pc = "returned"

\* the name an adapter gives itself in its error texts
VendorLabel ==
    CASE adapter = "claude" -> "Claude"
      [] adapter = "openai" -> "OpenAI"
      [] adapter = "gemini" -> "Gemini"

\* the results a success on the first call of this request can produce
FirstTrySuccesses ==
    CASE adapter = "claude" ->
           {ClaudeSuccess(resp, model) : resp \in ClaudeResponses}
      [] adapter = "openai" ->
           {OpenAISuccess(resp, model) : resp \in OpenAIResponses}
      [] adapter = "gemini" ->
           {GeminiSuccess(resp, model, SystemPrompt, human_prompt) :
               resp \in GeminiResponses}

\* C28: in the Claude, OpenAI and Gemini adapters the result depends only on
\* the last vendor call: a success after any number of retried failures is a
\* result a first-try success produces (the vendor's answer and usage, no
\* error text), and a fatal error after retried failures ends the loop at
\* that attempt with "Error calling <vendor>: " followed by the fatal error's
\* own message.
C28_LastCallDecides ==
    MainReturned =>
        /\ LastCall = "ok" =>
              /\ result \in FirstTrySuccesses
              /\ IsSuccess(result)
              /\ ~HasPrefix(result.content.str, "Error calling ")
        /\ LastCall = "fatal" =>
              /\ attempt = calls - 1
              /\ sleeps = calls - 1
              /\ result.content
                   = PyStr("Error calling " \o VendorLabel \o ": " \o error_str)
              /\ result.usage = ZeroUsage

\* a success on the third call, and the same for a fatal error, is reached
C28_Witness ==
    /\ MainReturned
    /\ adapter = "openai"
    /\ trace = <<"retryable", "sleep", "retryable", "sleep", "ok">>
    /\ result \in FirstTrySuccesses
    /\ result.usage.total_tokens > 0

\* the exhaustion marker of this invocation
ExhaustionMarker == "after " \o ToString(max_retries + 1) \o " attempts"

\* C29: in the Claude, OpenAI and Gemini adapters an error result carries the
\* marker "after <max_retries + 1> attempts" exactly when the last vendor
\* error was retryable and happened on the final attempt, index max_retries;
\* the result of a fatal error never carries it, at any attempt index.
C29_ExhaustionMarker ==
    (MainReturned /\ LastCall \in {"retryable", "fatal"}) =>
        /\ Contains(result.content.str, ExhaustionMarker)
              <=> (LastCall = "retryable" /\ attempt = max_retries)
        /\ LastCall = "fatal" => ~Contains(result.content.str, " attempts: ")

\* both sides are reached at the final attempt index: attempts exhausted
\* with the marker there
C29_Witness ==
    /\ MainReturned
    /\ adapter = "claude"
    /\ max_retries = 2
    /\ attempt = max_retries
    /\ LastCall = "retryable"
    /\ Contains(result.content.str, "after 3 attempts")

\* a fatal error at the final attempt index, without the marker
C29_FatalAtLastAttempt ==
    /\ MainReturned
    /\ max_retries >= 1
    /\ attempt = max_retries
    /\ LastCall = "fatal"

(***************************************************************************)
(* Cost over aggregation (main.py), checked under SpecMain.                *)
(***************************************************************************)
\* the single-provider loop of main is running or has returned
InSingleMode ==
    /\ mpc \in {"single", "returned"}
    /\ UseSingleProvider
    /\ ~args.list_tiers

\* the sum, in exact arithmetic, of the costs of the first n results
RECURSIVE TotalCostExact(_, _)
TotalCostExact(rs, n) ==
    IF n = 0 THEN 0
    ELSE TotalCostExact(rs, n - 1) + calculate_cost(rs[n].usage, rs[n].model)

RECURSIVE Power(_, _)
Power(b, k) == IF k <= 0 THEN 1 ELSE b * Power(b, k - 1)

\* x <= y * num / den for floats x and y and a factor num/den in [1, 16)
FloatWithinFactor(x, y, num, den) ==
    IF x.m = 0 THEN TRUE
    ELSE IF y.m = 0 THEN FALSE
    ELSE IF x.e <= y.e
    THEN IF y.e - x.e > 4 THEN TRUE
         ELSE x.m * den <= y.m * Pow2(y.e - x.e) * num
    ELSE IF x.e - y.e > 4 THEN FALSE
         ELSE x.m * Pow2(x.e - y.e) * den <= y.m * num

\* the accumulated float total of n calls and the float cost of their
\* aggregated usage are both roundings of one exact value: the aggregate
\* through 3 rounded operations, the total through n + 2, each with a
\* relative error of at most 1/Unit
WithinRounding(total, aggregate, n) ==
    /\ FloatWithinFactor(total, aggregate,
                         Power(Unit + 1, n + 2),
                         Power(Unit, n - 1) * Power(Unit - 1, 3))
    /\ FloatWithinFactor(aggregate, total,
                         Power(Unit + 1, 3) * Power(Unit, n - 1),
                         Power(Unit - 1, n + 2))

DefaultMaxRetries == 3

\* the comparisons run: one, two or three calls per provider, two tiers
CompareCommandLines ==
    [list_tiers : {FALSE}, system_prompt : {SystemPrompt},
     human_prompt : {"What is the capital of France?"}, provider : {""},
     compare : {FALSE}, synthesize : {FALSE}, tier : {"economy", "luxury"},
     num_calls : NumCallsChoices]

\* what the vendors do during a comparison: with one call per provider a
\* vendor call succeeds, fails with the overload error or fails with the
\* rejected-key error; with two calls it is overloaded or succeeds, at the
\* first or at the last attempt; with three calls every vendor call is
\* overloaded
CompareOutcomeKinds(n) ==
    CASE n = 1 -> {"ok", "retryable", "fatal"}
      [] n = 2 -> {"ok", "retryable"}
      [] OTHER -> {"retryable"}

\* the step just taken by an adapter had one of those outcomes: an answer
\* "Paris." of MaxTok tokens in and out, or one of the two errors, with the
\* smallest jitter
VendorOutcomeAdmitted ==
    /\ LastCall' \in CompareOutcomeKinds(args.num_calls)
    /\ (args.num_calls = 2 /\ LastCall' = "ok") =>
           calls' \in {1, DefaultMaxRetries + 1}
    /\ error_str' \in {"", "Error code: 529 - Overloaded",
                       "Error code: 401 - invalid x-api-key"}
    /\ wait_time' \in {0} \cup {Backoff(a, 0) : a \in 0..DefaultMaxRetries}
    /\ (pc' = "returned" /\ LastCall' = "ok") =>
           /\ result'.content.str = "Paris."
           /\ result'.usage.input_tokens = MaxTok
           /\ result'.usage.output_tokens = MaxTok

\* the record kept of an adapter invocation, with the vendor calls it made
InvocationWithCalls(provider_key, m, system_prompt, prompt, r, n) ==
    [adapter |-> provider_key, model |-> m, system_prompt |-> system_prompt,
     human_prompt |-> prompt, result |-> r, calls |-> n]

\* `response = call_func(system_prompt, human_prompt, model=model, ...)`:
\* the adapter is entered, max_retries is not passed
call_func ==
    /\ mpc = "compare"
    /\ pc = "idle"
    /\ UNCHANGED <<args, provider_idx, call_num, provider_responses, total_usage,
                   responses, synthesis_response, total_cost, invocations>>
    /\ UNCHANGED <<env, search_enabled, search_results>>
    /\ LET tier_config == TIERS[args.tier]
           p == providers(tier_config)[provider_idx]
       IN  /\ adapter' = p.provider_key
           /\ model' = p.model
           /\ human_prompt' = args.human_prompt
           /\ user_message' = args.human_prompt
           /\ max_retries' = DefaultMaxRetries
           /\ EnterLoop(MainRange(DefaultMaxRetries))
    /\ mpc' = "call_func"

\* the adapter has returned: compare_providers appends the response,
\* accumulates its usage and, after the last call to the provider, stores
\* the provider's entry
compare_providers_loop ==
    /\ mpc = "call_func"
    /\ pc = "returned"
    /\ UNCHANGED <<args, synthesis_response, total_cost>>
    /\ UNCHANGED <<env, search_enabled, search_results>>
    /\ adapter' = "claude"
    /\ model' = "gpt-4"
    /\ human_prompt' = "Hi"
    /\ user_message' = ""
    /\ max_retries' = 0
    /\ attempt' = 0
    /\ calls' = 0
    /\ sleeps' = 0
    /\ wait_time' = 0
    /\ error_str' = ""
    /\ trace' = <<>>
    /\ result' = None
    /\ pc' = "idle"
    /\ LET tier_config == TIERS[args.tier]
           p        == providers(tier_config)[provider_idx]
           response == result
           rs       == Append(provider_responses, response)
           usage    == AddUsage(total_usage, response.usage)
       IN  /\ invocations' = Append(invocations,
                                    InvocationWithCalls(p.provider_key, p.model,
                                                        args.system_prompt,
                                                        args.human_prompt,
                                                        response, calls))
           /\ IF CallsLeft(call_num, args.num_calls)
              THEN /\ call_num' = call_num + 1
                   /\ provider_responses' = rs
                   /\ total_usage' = usage
                   /\ mpc' = "compare"
                   /\ UNCHANGED <<responses, provider_idx>>
              ELSE /\ responses' = DictSet(responses, p.provider_key,
                                           StoredEntry(args.num_calls, p.model,
                                                       rs, usage))
                   /\ FreshProvider
                   /\ IF provider_idx < Len(providers(tier_config))
                      THEN provider_idx' = provider_idx + 1 /\ mpc' = "compare"
                      ELSE provider_idx' = provider_idx /\ mpc' = "compared"

InitCompare ==
    /\ AdapterIdle
    /\ env = MainEnvKeys
    /\ args \in CompareCommandLines
    /\ mpc = "compare"
    /\ provider_idx = 1
    /\ call_num = 0
    /\ provider_responses = <<>>
    /\ total_usage = ZeroUsage
    /\ responses = EmptyDict
    /\ synthesis_response = None
    /\ total_cost = 0
    /\ invocations = <<>>

NextCompare ==
    \/ call_func
    \/ call_claude_with_prompts /\ VendorOutcomeAdmitted
    \/ call_openai_with_prompts /\ VendorOutcomeAdmitted
    \/ call_gemini_with_prompts /\ VendorOutcomeAdmitted
    \/ compare_providers_loop

SpecCompare == InitCompare /\ [][NextCompare]_vars /\ WF_vars(NextCompare)

\* the vendor calls made by the first n invocations on record
RECURSIVE VendorCalls(_, _)
VendorCalls(invs, n) ==
    IF n = 0 THEN 0 ELSE VendorCalls(invs, n - 1) + invs[n].calls

\* the vendor calls made so far by the comparison, those of the invocation
\* under way included
TotalVendorCalls ==
    VendorCalls(invocations, Len(invocations))
    + (IF mpc = "call_func" THEN calls ELSE 0)

C32_CallBudget ==
    /\ calls <= DefaultMaxRetries + 1
    /\ \A i \in 1..Len(invocations) :
           invocations[i].calls <= DefaultMaxRetries + 1
    /\ Len(invocations) <= 3 * args.num_calls
    /\ TotalVendorCalls <= 3 * args.num_calls * 4

\* C32: compare_providers always terminates, and with num_calls = n and the
\* adapters' default max_retries = 3 it makes at most 4 vendor calls per
\* adapter invocation and at most 3 * n * 4 vendor calls in total, whatever
\* the vendors answer, every vendor call failing with a retryable error
\* included.
C32_ComparisonTerminates ==
    /\ []C32_CallBudget
    /\ <>(mpc = "compared")

\* three calls per provider, every vendor call overloaded: 36 vendor calls
C32_Witness ==
    /\ mpc = "compared"
    /\ args.num_calls = 3
    /\ Len(invocations) = 9
    /\ \A i \in 1..9 : invocations[i].calls = 4
    /\ TotalVendorCalls = 36
    /\ IsErrorResult(responses["gemini"].individual_responses[3])

(***************************************************************************)
(* The search step of the SearchGPT adapter, checked under Spec.           *)
(***************************************************************************)
\* a step of the retry loop of the SearchGPT adapter leaves the outcome of
\* the search and the user message as they were when the loop was entered
SearchGPTLoopFrame ==
    (adapter = "searchgpt" /\ pc = "attempt") =>
        /\ search_results' = search_results
        /\ user_message' = user_message
        /\ search_enabled' = search_enabled
        /\ human_prompt' = human_prompt

\* what the one search before the loop left behind, and what the failure
\* results say of it
SearchGPTSearchedOnce ==
    (adapter = "searchgpt" /\ pc # "idle") =>
        /\ ~search_enabled => (search_results = <<>> /\ user_message = human_prompt)
        /\ user_message = EnhancedPrompt(search_enabled, search_results, human_prompt)
        /\ (pc = "returned" /\ result # None /\ "error" \in DOMAIN result) =>
               result.search_results = search_results

\* C33: in the SearchGPT adapter the web search runs before the first model
\* attempt and not again (search_results and the user message are set when
\* the loop is entered and no attempt changes them; with search_enabled
\* false there are no results and the prompt is the original), so every
\* retry sends the messages of the first attempt, and every failure result
\* carries the search_results of that search.
C33_SearchOnce ==
    /\ [][SearchGPTLoopFrame]_vars
    /\ []SearchGPTSearchedOnce

\* a failure after a retried attempt that carries the results of the search
C33_Witness ==
    /\ adapter = "searchgpt"
    /\ pc = "returned"
    /\ search_enabled
    /\ Len(search_results) >= 1
    /\ sleeps >= 1
    /\ "error" \in DOMAIN result
    /\ result.search_results = search_results
    /\ user_message # human_prompt

====
